---- MODULE Spec2Model ----
(***************************************************************************)
(* Model of the Felay GUI companion process                                *)
(* (packages/gui/src-tauri/src/main.rs): endpoint locator, line transport, *)
(* request/response codec, lifecycle supervisor and status synchronizer.   *)
(***************************************************************************)
EXTENDS Integers, Sequences, FiniteSets, TLC

VARIABLES
  platform,     \* "unix" | "windows": the cfg(target_...) the binary was built for
  envUserProfile, \* Option<String>: env var USERPROFILE
  envHome,      \* Option<String>: env var HOME
  files,        \* lock-file path -> file state
  call,         \* the last Transport call: its inputs and what ipc_request returned
  resolved,     \* the last Endpoint Locator call and what get_ipc_path returned
  pc,           \* thread -> position in its code
  ep,           \* thread -> Option<String>: the endpoint its current request resolved
  cmd,          \* the on-demand command being served: verb, requests written, result
  auto,         \* auto_start_daemon: polls made, spawns made, outcome
  tick,         \* Status Synchronizer: the running tick's probe result, ticks completed flag
  tray,         \* the two tray menu item texts
  daemon,       \* the daemon as seen from outside: listening or not, processes spawned
  chans,        \* the channels opened by ipc_request: how many so far, the ones open
                \* now with their owners, and what each caller's last call returned
  util          \* the utility operation under way (sanitization, export, update
                \* check, explicit start): its inputs, position and result

vars == <<platform, envUserProfile, envHome, files, call, resolved, pc, ep, cmd, auto, tick, tray,
         daemon, chans, util>>

(***************************************************************************)
(* Bounds of the model.                                                    *)
(***************************************************************************)
\* longest run of chunks a responder sends before it ends the line
MaxChunks == 2
\* largest active_sessions value a status payload carries
MaxSessions == 1
\* deepest nesting of objects and arrays in a config document
MaxDepth == 2

(***************************************************************************)
(* Rust's Option.                                                          *)
(***************************************************************************)
None == [some |-> FALSE]
Some(x) == [some |-> TRUE, val |-> x]

(***************************************************************************)
(* serde_json::Value.  An object is a function from its keys to values.    *)
(***************************************************************************)
JNull == [t |-> "null"]
JBool(b) == [t |-> "bool", b |-> b]
JNum(n) == [t |-> "num", n |-> n]
JStr(s) == [t |-> "str", s |-> s]
JArr(a) == [t |-> "arr", a |-> a]
JObj(o) == [t |-> "obj", o |-> o]

\* value.get(key): Some(member) of an object that has the key, else None
JGet(v, k) ==
  IF v.t = "obj" /\ k \in DOMAIN v.o THEN Some(v.o[k]) ELSE None

\* a required struct field of JSON type ty
HasField(v, k, ty) ==
  v.t = "obj" /\ k \in DOMAIN v.o /\ v.o[k].t = ty

\* an Option<_> struct field: absent, null, or of JSON type ty
OptFieldOk(v, k, ty) ==
  v.t = "obj" /\ (k \in DOMAIN v.o => v.o[k].t \in {ty, "null"})

\* the value of an Option<_> field already known to be well-formed
OptField(v, k) ==
  IF k \in DOMAIN v.o /\ v.o[k].t # "null" THEN Some(v.o[k]) ELSE None

(***************************************************************************)
(* Text on the wire and in files: a sequence of chunks.  A chunk is        *)
(* whitespace, a newline, bytes that belong to no JSON document, or the    *)
(* text of one complete JSON document.                                     *)
(***************************************************************************)
Ws == [c |-> "ws"]
NlCh == [c |-> "nl"]
Junk == [c |-> "junk"]
Doc(v) == [c |-> "doc", v |-> v]

IsSpace(ch) == ch.c \in {"ws", "nl"}

RECURSIVE TrimStart(_)
TrimStart(s) ==
  IF Len(s) > 0 /\ IsSpace(Head(s)) THEN TrimStart(Tail(s)) ELSE s

RECURSIVE TrimEnd(_)
TrimEnd(s) ==
  IF Len(s) > 0 /\ IsSpace(s[Len(s)]) THEN TrimEnd(SubSeq(s, 1, Len(s) - 1)) ELSE s

\* str::trim
Trim(s) == TrimEnd(TrimStart(s))

\* serde_json::from_str::<Value>: whitespace around one document is skipped;
\* no document, bytes that are no JSON, or anything after the document is an error
FromStr(s) ==
  LET core == TrimEnd(TrimStart(s)) IN
    IF Len(core) = 1 /\ core[1].c = "doc" THEN Some(core[1].v) ELSE None

(***************************************************************************)
(* Endpoint Locator.                                                       *)
(***************************************************************************)
\* the values the two environment variables take when set
UserProfileDir == "C:/Users/u"
HomeDir == "/home/u"

\* env::var("USERPROFILE").ok().or_else(|| env::var("HOME").ok())
get_home_dir ==
  IF envUserProfile.some THEN envUserProfile ELSE envHome

\* get_home_dir with the two variables looked up in the other order
get_home_dir_home_first ==
  IF envHome.some THEN envHome ELSE envUserProfile

\* PathBuf::from(home).join(".felay").join("daemon.json")
LockPathOf(home) == home \o "/.felay/daemon.json"

get_lock_file_path ==
  IF get_home_dir.some THEN Some(LockPathOf(get_home_dir.val)) ELSE None

\* default_ipc_path that needs no home directory on either platform
default_ipc_path_without_home ==
  IF platform = "windows" THEN Some("\\\\.\\pipe\\felay")
  ELSE Some((IF get_home_dir.some THEN get_home_dir.val ELSE "") \o "/.felay/daemon.sock")

default_ipc_path ==
  IF platform = "windows" THEN Some("\\\\.\\pipe\\felay")
  ELSE IF get_home_dir.some THEN Some(get_home_dir.val \o "/.felay/daemon.sock")
  ELSE None

\* file states: no such file, a file that cannot be read as text, a text file
Absent == [st |-> "absent"]
Unreadable == [st |-> "unreadable"]
TextFile(text) == [st |-> "file", text |-> text]

\* fs::read_to_string(path).ok()
read_to_string(path) ==
  IF path \in DOMAIN files /\ files[path].st = "file" THEN Some(files[path].text) ELSE None

\* serde_json::from_str::<DaemonLockFile>: an object with an integer pid and a
\* string ipc; other members are ignored
from_str_DaemonLockFile(text) ==
  LET v == FromStr(text) IN
    IF v.some /\ HasField(v.val, "pid", "num") /\ HasField(v.val, "ipc", "str")
    THEN Some([pid |-> v.val.o["pid"].n, ipc |-> v.val.o["ipc"].s])
    ELSE None

read_lock_file ==
  LET lock_path == get_lock_file_path IN
    IF ~lock_path.some THEN None
    ELSE LET lock_text == read_to_string(lock_path.val) IN
      IF ~lock_text.some THEN None ELSE from_str_DaemonLockFile(lock_text.val)

\* get_ipc_path with the precedence reversed: the default wins when there is one
get_ipc_path_default_first ==
  IF default_ipc_path.some THEN default_ipc_path
  ELSE IF read_lock_file.some THEN Some(read_lock_file.val.ipc) ELSE None

\* read_lock_file().map(|lock| lock.ipc).or_else(default_ipc_path)
get_ipc_path ==
  IF read_lock_file.some THEN Some(read_lock_file.val.ipc) ELSE default_ipc_path

\* lock-file contents: what the daemon publishes, and malformed ones
LockDoc(pid, ipc) == JObj(("pid" :> JNum(pid)) @@ ("ipc" :> JStr(ipc)))

PublishedIpc == "/tmp/x.sock"

GoodLockTexts ==
  {<<Doc(LockDoc(4242, PublishedIpc))>>,
   <<Doc(LockDoc(4242, PublishedIpc)), NlCh>>,
   <<Doc(JObj(("pid" :> JNum(7)) @@ ("ipc" :> JStr(PublishedIpc)) @@ ("v" :> JNum(2))))>>}

BadLockTexts ==
  {<<>>,
   <<Junk>>,
   <<Doc(JNum(42))>>,
   <<Doc(JObj("ipc" :> JStr(PublishedIpc)))>>,
   <<Doc(JObj(("pid" :> JNum(4242)) @@ ("ipc" :> JNum(5))))>>,
   <<Doc(JObj(("pid" :> JStr("4242")) @@ ("ipc" :> JStr(PublishedIpc))))>>,
   <<Doc(LockDoc(4242, PublishedIpc)), Junk>>}

FileStates == {Absent, Unreadable} \cup {TextFile(t) : t \in GoodLockTexts \cup BadLockTexts}

LockPaths == {LockPathOf(UserProfileDir), LockPathOf(HomeDir)}

(***************************************************************************)
(* Transport.  What a responder does on one channel after the request is   *)
(* written is a script: chunks, each arriving some seconds after the one   *)
(* before, then the way the line ends.                                     *)
(*   nl    a newline arrives            eof   the responder closes         *)
(*   err   the read fails               quiet nothing more ever arrives    *)
(*   drip  bytes keep arriving, each within the timeout, never a newline   *)
(***************************************************************************)
\* Duration::from_secs(10): set_read_timeout (unix), recv_timeout (windows)
ReadTimeout == 10
\* seconds a slow responder lets pass before a chunk; below ReadTimeout
SlowDelay == 6

Delays == {0, SlowDelay}

SeqsUpTo(S, n) == UNION {[1..m -> S] : m \in 0..n}

ChunksOf(docs) == {Ws, Junk} \cup {Doc(v) : v \in docs}

Ends ==
  {[k |-> k, d |-> d] : k \in {"nl", "eof", "err"}, d \in Delays}
    \cup {[k |-> "quiet", d |-> 0], [k |-> "drip", d |-> 0]}

Scripts(docs, n) == [chunks : SeqsUpTo([d : Delays, c : ChunksOf(docs)], n), end : Ends]

\* where a call can fail before its read phase
FailPoints(plat) ==
  {"none", "connect", "write", "newline", "flush"}
    \cup (IF plat = "unix" THEN {"set_read_timeout"} ELSE {})

\* BufReader::read_line on the unix socket: every read of the socket waits at
\* most ReadTimeout on its own (SO_RCVTIMEO); a chunk without a newline is
\* appended and the next read starts
RECURSIVE read_line_socket(_, _, _, _)
read_line_socket(script, i, line, el) ==
  IF i <= Len(script.chunks)
  THEN LET e == script.chunks[i] IN
         IF e.d < ReadTimeout
         THEN read_line_socket(script, i + 1, Append(line, e.c), el + e.d)
         ELSE [kind |-> "err", line |-> line, el |-> el + ReadTimeout]
  ELSE LET e == script.end IN
         CASE e.k = "nl" /\ e.d < ReadTimeout ->
                [kind |-> "ok", line |-> Append(line, NlCh), el |-> el + e.d]
           [] e.k = "eof" /\ e.d < ReadTimeout ->
                [kind |-> "ok", line |-> line, el |-> el + e.d]
           [] e.k = "err" /\ e.d < ReadTimeout ->
                [kind |-> "err", line |-> line, el |-> el + e.d]
           [] e.k = "drip" ->
                [kind |-> "hang", line |-> line, el |-> el]
           [] OTHER ->
                [kind |-> "err", line |-> line, el |-> el + ReadTimeout]

\* BufReader::read_line on the windows pipe, in the spawned thread: no read
\* timeout; it returns when the line ends, and never on quiet or drip
RECURSIVE read_line_pipe(_, _, _, _)
read_line_pipe(script, i, line, el) ==
  IF i <= Len(script.chunks)
  THEN LET e == script.chunks[i] IN
         read_line_pipe(script, i + 1, Append(line, e.c), el + e.d)
  ELSE LET e == script.end IN
         CASE e.k = "nl" -> [kind |-> "ok", line |-> Append(line, NlCh), el |-> el + e.d]
           [] e.k = "eof" -> [kind |-> "ok", line |-> line, el |-> el + e.d]
           [] e.k = "err" -> [kind |-> "err", line |-> line, el |-> el + e.d]
           [] OTHER -> [kind |-> "never", line |-> line, el |-> el]

\* what a call that failed before its read phase returns: the `?` on .ok()
EarlyNone(fail) ==
  [hang |-> FALSE, ret |-> None, el |-> 0,
   opened |-> fail # "connect", sent |-> FALSE, worker |-> "none"]

\* ipc_request_unix with the `?` after read_line dropped: the text read so far
\* is parsed even when the read failed
ipc_request_unix_ignoring_read_error(fail, script) ==
  IF fail # "none" THEN EarlyNone(fail)
  ELSE LET r == read_line_socket(script, 1, <<>>, 0) IN
    [hang |-> r.kind = "hang",
     ret |-> FromStr(Trim(r.line)),
     el |-> r.el, opened |-> TRUE, sent |-> TRUE, worker |-> "none"]

\* ipc_request, cfg(target_family = "unix")
ipc_request_unix(fail, script) ==
  IF fail # "none" THEN EarlyNone(fail)
  ELSE LET r == read_line_socket(script, 1, <<>>, 0) IN
    [hang |-> r.kind = "hang",
     ret |-> IF r.kind = "ok" THEN FromStr(Trim(r.line)) ELSE None,
     el |-> r.el, opened |-> TRUE, sent |-> TRUE, worker |-> "none"]

\* ipc_request, cfg(target_os = "windows"): the read runs in a spawned thread
\* and the caller waits ReadTimeout for the line on a channel
ipc_request_windows(fail, script) ==
  IF fail # "none" THEN EarlyNone(fail)
  ELSE LET w == read_line_pipe(script, 1, <<>>, 0) IN
    IF w.kind = "ok" /\ w.el < ReadTimeout
    THEN [hang |-> FALSE, ret |-> FromStr(Trim(w.line)), el |-> w.el,
          opened |-> TRUE, sent |-> TRUE, worker |-> "joined"]
    ELSE IF w.kind = "err" /\ w.el < ReadTimeout
    THEN [hang |-> FALSE, ret |-> None, el |-> w.el,
          opened |-> TRUE, sent |-> TRUE, worker |-> "exited"]
    ELSE [hang |-> FALSE, ret |-> None, el |-> ReadTimeout,
          opened |-> TRUE, sent |-> TRUE, worker |-> "detached"]

ipc_request(plat, fail, script) ==
  IF plat = "windows" THEN ipc_request_windows(fail, script)
  ELSE ipc_request_unix(fail, script)

(***************************************************************************)
(* Response documents a responder may send: well-formed envelopes of each  *)
(* payload shape, and envelopes and payloads of the wrong shape.           *)
(***************************************************************************)
Envelope(ty, payload) == JObj(("type" :> JStr(ty)) @@ ("payload" :> payload))

SessionDoc ==
  JObj(("sessionId" :> JStr("s1")) @@ ("cli" :> JStr("codex")) @@ ("cwd" :> JStr("/w"))
       @@ ("status" :> JStr("active")) @@ ("startedAt" :> JStr("t0"))
       @@ ("pushBotId" :> JStr("b1")) @@ ("pushEnabled" :> JBool(TRUE))
       @@ ("interactiveBotId" :> JNull))

WarningDoc == JObj(("botId" :> JStr("b1")) @@ ("message" :> JStr("token expired")))

StatusPayload(n, withLists) ==
  JObj(("daemonPid" :> JNum(4242)) @@ ("activeSessions" :> JNum(n))
       @@ ("sessions" :> JArr(IF withLists THEN <<SessionDoc>> ELSE <<>>))
       @@ (IF withLists THEN ("warnings" :> JArr(<<WarningDoc>>)) ELSE <<>>))

StatusDocs ==
  {Envelope("status_response", StatusPayload(n, n = MaxSessions)) : n \in 0..MaxSessions}

OutcomeDocs ==
  {Envelope("ok_response", JObj("ok" :> JBool(TRUE))),
   Envelope("ok_response", JObj(("ok" :> JBool(TRUE)) @@ ("error" :> JNull))),
   Envelope("ok_response", JObj(("ok" :> JBool(FALSE)) @@ ("error" :> JStr("boom"))))}

BotsDoc ==
  Envelope("list_bots_response",
           JObj(("interactive" :> JArr(<<>>)) @@ ("push" :> JArr(<<JStr("b1")>>))))

MalformedDocs ==
  {JNum(42),
   JObj("type" :> JStr("status_response")),
   Envelope("status_response", JNum(42)),
   Envelope("status_response",
            JObj(("activeSessions" :> JNum(1)) @@ ("sessions" :> JArr(<<>>)))),
   Envelope("status_response",
            JObj(("daemonPid" :> JNum(4242)) @@ ("activeSessions" :> JNum(1))
                 @@ ("sessions" :> JArr(<<JObj("sessionId" :> JStr("s1"))>>)))),
   Envelope("ok_response", JObj("ok" :> JStr("yes"))),
   Envelope("ok_response", JObj(("ok" :> JBool(TRUE)) @@ ("error" :> JNum(7))))}

Docs == StatusDocs \cup OutcomeDocs \cup {BotsDoc} \cup MalformedDocs

\* the documents of the specification of the Transport alone
TransportDocs == {JNum(42), Envelope("ok_response", JObj("ok" :> JBool(TRUE)))}

\* the responder behaviours of the specifications of the threads: one document
\* or junk as one line, or no line at all
OneLine(ch) == [chunks |-> <<[d |-> 0, c |-> ch]>>, end |-> [k |-> "nl", d |-> 0]]

NoLine(k) == [chunks |-> <<>>, end |-> [k |-> k, d |-> 0]]

AppScripts ==
  {OneLine(ch) : ch \in {Junk} \cup {Doc(v) : v \in Docs}}
    \cup {NoLine(k) : k \in {"eof", "err", "quiet", "drip"}}

(***************************************************************************)
(* Request/Response Codec: serde_json::from_value into the response types. *)
(***************************************************************************)
\* GenericOkResponse { payload: GenericOkPayload { ok: bool, error: Option<String> } }
from_value_GenericOkResponse(v) ==
  IF /\ HasField(v, "payload", "obj")
     /\ HasField(v.o["payload"], "ok", "bool")
     /\ OptFieldOk(v.o["payload"], "error", "str")
  THEN Some([ok |-> v.o["payload"].o["ok"].b, error |-> OptField(v.o["payload"], "error")])
  ELSE None

\* DaemonStopResponse { payload: DaemonStopPayload { ok: bool } }
from_value_DaemonStopResponse(v) ==
  IF HasField(v, "payload", "obj") /\ HasField(v.o["payload"], "ok", "bool")
  THEN Some([ok |-> v.o["payload"].o["ok"].b])
  ELSE None

\* DaemonSession, rename_all = "camelCase"
DaemonSessionOk(v) ==
  /\ \A k \in {"sessionId", "cli", "cwd", "status", "startedAt"} : HasField(v, k, "str")
  /\ OptFieldOk(v, "interactiveBotId", "str")
  /\ OptFieldOk(v, "interactiveBotConnected", "bool")
  /\ OptFieldOk(v, "pushBotId", "str")
  /\ OptFieldOk(v, "pushEnabled", "bool")

DaemonSessionOf(v) ==
  [session_id |-> v.o["sessionId"].s, cli |-> v.o["cli"].s, cwd |-> v.o["cwd"].s,
   status |-> v.o["status"].s, started_at |-> v.o["startedAt"].s,
   interactive_bot_id |-> OptField(v, "interactiveBotId"),
   interactive_bot_connected |-> OptField(v, "interactiveBotConnected"),
   push_bot_id |-> OptField(v, "pushBotId"),
   push_enabled |-> OptField(v, "pushEnabled")]

\* BotWarning, rename_all = "camelCase"
BotWarningOk(v) == HasField(v, "botId", "str") /\ HasField(v, "message", "str")

BotWarningOf(v) == [bot_id |-> v.o["botId"].s, message |-> v.o["message"].s]

\* DaemonStatus { payload: DaemonStatusPayload { daemon_pid, active_sessions,
\* sessions, warnings: Option<Vec<BotWarning>> } }, rename_all = "camelCase"
from_value_DaemonStatus(v) ==
  IF /\ HasField(v, "payload", "obj")
     /\ HasField(v.o["payload"], "daemonPid", "num")
     /\ HasField(v.o["payload"], "activeSessions", "num")
     /\ HasField(v.o["payload"], "sessions", "arr")
     /\ \A i \in DOMAIN v.o["payload"].o["sessions"].a :
          DaemonSessionOk(v.o["payload"].o["sessions"].a[i])
     /\ OptFieldOk(v.o["payload"], "warnings", "arr")
     /\ LET w == OptField(v.o["payload"], "warnings") IN
          w.some => \A i \in DOMAIN w.val.a : BotWarningOk(w.val.a[i])
  THEN LET p == v.o["payload"].o
           w == OptField(v.o["payload"], "warnings")
       IN Some([daemon_pid |-> p["daemonPid"].n,
                active_sessions |-> p["activeSessions"].n,
                sessions |-> [i \in DOMAIN p["sessions"].a |-> DaemonSessionOf(p["sessions"].a[i])],
                warnings |-> IF w.some
                             THEN Some([i \in DOMAIN w.val.a |-> BotWarningOf(w.val.a[i])])
                             ELSE None])
  ELSE None

\* ipc_request_typed::<T>: the `?` on the Transport outcome, then from_value
ipc_request_typed_GenericOkResponse(ret) ==
  IF ret.some THEN from_value_GenericOkResponse(ret.val) ELSE None

ipc_request_typed_DaemonStopResponse(ret) ==
  IF ret.some THEN from_value_DaemonStopResponse(ret.val) ELSE None

ipc_request_typed_DaemonStatus(ret) ==
  IF ret.some THEN from_value_DaemonStatus(ret.val) ELSE None

\* request_daemon_status: Some(resp.payload)
request_daemon_status(ret) == ipc_request_typed_DaemonStatus(ret)

\* send_stop_request: .map(|r| r.payload.ok).unwrap_or(false)
send_stop_request(ret) ==
  LET r == ipc_request_typed_DaemonStopResponse(ret) IN
    JBool(IF r.some THEN r.val.ok ELSE FALSE)

(***************************************************************************)
(* The commands, each as its result when the endpoint does not resolve and *)
(* as its result from what ipc_request returned.                           *)
(***************************************************************************)
MutatingVerbs ==
  {"save_bot", "delete_bot", "bind_bot", "unbind_bot", "test_bot", "activate_bot",
   "save_config", "setup_codex_config", "setup_claude_config"}

PayloadVerbs == {"list_bots", "get_config", "check_codex_config", "check_claude_config"}

Verbs == MutatingVerbs \cup PayloadVerbs \cup {"read_daemon_status", "stop"}

\* the "type" member of the request a verb writes
RequestType(verb) ==
  CASE verb = "read_daemon_status" -> "status_request"
    [] verb = "stop" -> "stop_request"
    [] OTHER -> verb \o "_request"

OkError(ok, error) == JObj(("ok" :> JBool(ok)) @@ ("error" :> error))

EmptyBots == JObj(("interactive" :> JArr(<<>>)) @@ ("push" :> JArr(<<>>)))

NotRunningStatus ==
  [running |-> FALSE, daemon_pid |-> None, active_sessions |-> 0,
   sessions |-> <<>>, warnings |-> <<>>]

\* save_bot, delete_bot, bind_bot, unbind_bot, test_bot, activate_bot,
\* save_config, setup_codex_config, setup_claude_config: the reply
mutating_reply_unchecked(ret) ==
  IF ret.some /\ HasField(ret.val, "payload", "obj")
  THEN OkError(JGet(ret.val.o["payload"], "ok") = Some(JBool(TRUE)),
               IF JGet(ret.val.o["payload"], "error").some
               THEN ret.val.o["payload"].o["error"] ELSE JNull)
  ELSE OkError(FALSE, JStr("no response from daemon"))

mutating_reply(ret) ==
  LET resp == ipc_request_typed_GenericOkResponse(ret) IN
    IF resp.some
    THEN OkError(resp.val.ok, IF resp.val.error.some THEN resp.val.error.val ELSE JNull)
    ELSE OkError(FALSE, JStr("no response from daemon"))

\* list_bots: the payload member as it is, else the empty lists
list_bots_reply(ret) ==
  IF ret.some /\ JGet(ret.val, "payload").some THEN JGet(ret.val, "payload").val
  ELSE EmptyBots

\* get_config, check_codex_config, check_claude_config: the payload member as
\* it is, else null
payload_or_null_reply(ret) ==
  IF ret.some /\ JGet(ret.val, "payload").some THEN JGet(ret.val, "payload").val
  ELSE JNull

\* read_daemon_status: GuiStatus from the status payload
read_daemon_status_reply(ret) ==
  LET status == request_daemon_status(ret) IN
    IF ~status.some THEN NotRunningStatus
    ELSE [running |-> TRUE,
          daemon_pid |-> Some(status.val.daemon_pid),
          active_sessions |-> status.val.active_sessions,
          sessions |-> status.val.sessions,
          warnings |-> IF status.val.warnings.some THEN status.val.warnings.val ELSE <<>>]

\* the early return of each command when get_ipc_path() is None
CommandNoEndpoint(verb) ==
  CASE verb \in MutatingVerbs -> OkError(FALSE, JStr("daemon not running"))
    [] verb = "list_bots" -> EmptyBots
    [] verb \in PayloadVerbs \ {"list_bots"} -> JNull
    [] verb = "read_daemon_status" -> NotRunningStatus
    [] verb = "stop" -> JBool(FALSE)

CommandReply(verb, ret) ==
  CASE verb \in MutatingVerbs -> mutating_reply(ret)
    [] verb = "list_bots" -> list_bots_reply(ret)
    [] verb \in PayloadVerbs \ {"list_bots"} -> payload_or_null_reply(ret)
    [] verb = "read_daemon_status" -> read_daemon_status_reply(ret)
    [] verb = "stop" -> send_stop_request(ret)

(***************************************************************************)
(* Threads: the setup closure ("main"), auto_start_daemon ("auto"), the    *)
(* status polling thread ("sync") and the context serving one on-demand    *)
(* command or the tray's stop item at a time ("cmd").                      *)
(***************************************************************************)
Threads == {"main", "auto", "sync", "cmd"}

\* no call of ipc_request made yet
NoChannels == [opened |-> 0, open |-> {}, last |-> <<>>]

\* no utility operation under way
NoUtil == [op |-> "none"]

NoCommand ==
  [verb |-> "none", calls |-> 0, sent |-> 0, req |-> "", out |-> None, result |-> JNull]

\* auto_start_daemon before it runs: polls made, what the initial probe said,
\* whether the lookup found an executable, how the run ended
AutoStart == [polls |-> 0, outcome |-> "none", probe |-> "none", found |-> "none"]

\* the tick in progress or last completed: the probe's active_sessions (None
\* when not running), the set_text calls made, the items whose set_text
\* returned Err, and whether the tick has completed
NoTick == [res |-> None, sets |-> 0, failed |-> {}, done |-> FALSE]

\* the texts of the two menu items.  "Daemon: reading", "Daemon: running" and
\* "Daemon: not running" stand for the three status texts of the source;
\* <<"sessions", n>> stands for format!("<active sessions>: {}", n)
StatusText(res) == IF res.some THEN "Daemon: running" ELSE "Daemon: not running"

SessionsText(res) == <<"sessions", IF res.some THEN res.val ELSE 0>>

\* before the setup closure has built the menu
NoTray == [status |-> "", sessions |-> <<"", 0>>]

\* MenuItem::with_id(.., "status", "Daemon: <reading status>", ..) and
\* MenuItem::with_id(.., "sessions", "<active sessions>: 0", ..)
InitialTray == [status |-> "Daemon: reading", sessions |-> <<"sessions", 0>>]

\* what a request meets: a failure point, or a responder's script; nothing
\* listens while the daemon is down, so the connect fails
Outcomes ==
  IF daemon.up
  THEN {[fail |-> "none", script |-> sc] : sc \in AppScripts}
         \cup {[fail |-> f, script |-> NoLine("quiet")] : f \in FailPoints(platform) \ {"none"}}
  ELSE {[fail |-> "connect", script |-> NoLine("quiet")]}

(***************************************************************************)
(* Specification of one Transport call.                                    *)
(***************************************************************************)
\* the variables the Transport specification leaves alone
othersOfTransport ==
  <<envUserProfile, envHome, files, resolved, pc, ep, cmd, auto, tick, tray, daemon, chans,
    util>>

InitEnvNone ==
  /\ envUserProfile = None
  /\ envHome = None
  /\ files = <<>>
  /\ resolved = [st |-> "idle"]

InitThreadsNone ==
  /\ pc = [t \in Threads |-> "off"]
  /\ ep = [t \in Threads |-> None]
  /\ cmd = NoCommand
  /\ auto = AutoStart
  /\ tick = NoTick
  /\ tray = NoTray
  /\ daemon = [up |-> FALSE, spawns |-> 0]

\* no thread of the process is running
InitThreadsOff ==
  /\ pc = [t \in Threads |-> "off"]
  /\ ep = [t \in Threads |-> None]
  /\ cmd = NoCommand
  /\ auto = AutoStart
  /\ tick = NoTick
  /\ tray = NoTray

InitTransport ==
  /\ platform \in {"unix", "windows"}
  /\ call = [st |-> "idle"]
  /\ InitEnvNone
  /\ InitThreadsNone
  /\ chans = NoChannels
  /\ util = NoUtil

\* one call of ipc_request: the point it fails at, or the responder's script
TransportCall ==
  /\ call.st = "idle"
  /\ \E fail \in FailPoints(platform) :
       \E script \in IF fail = "none" THEN Scripts(TransportDocs, MaxChunks)
                     ELSE {NoLine("quiet")} :
         LET r == ipc_request(platform, fail, script) IN
           call' = [st |-> IF r.hang THEN "hung" ELSE "returned",
                    fail |-> fail, script |-> script, res |-> r]
  /\ UNCHANGED <<platform, othersOfTransport>>

NextTransport == TransportCall

SpecTransport == InitTransport /\ [][NextTransport]_vars

(***************************************************************************)
(* The environment of the threads: the daemon starts and exits on its own, *)
(* whoever started it.                                                     *)
(***************************************************************************)
InitEnvApp ==
  /\ platform \in {"unix", "windows"}
  /\ envUserProfile = None
  /\ envHome \in {None, Some(HomeDir)}
  /\ files \in {[p \in LockPaths |-> IF p = LockPathOf(HomeDir) THEN f ELSE Absent] :
                  f \in {Absent, TextFile(<<Doc(LockDoc(4242, PublishedIpc))>>)}}
  /\ resolved = [st |-> "idle"]
  /\ call = [st |-> "idle"]
  /\ daemon \in {[up |-> u, spawns |-> 0] : u \in BOOLEAN}
  /\ chans = NoChannels
  /\ util = NoUtil

DaemonStarts ==
  /\ ~daemon.up
  /\ daemon' = [daemon EXCEPT !.up = TRUE]
  /\ UNCHANGED <<platform, envUserProfile, envHome, files, call, resolved, pc, ep, cmd,
                 auto, tick, tray, chans, util>>

DaemonExits ==
  /\ daemon.up
  /\ daemon' = [daemon EXCEPT !.up = FALSE]
  /\ UNCHANGED <<platform, envUserProfile, envHome, files, call, resolved, pc, ep, cmd,
                 auto, tick, tray, chans, util>>

(***************************************************************************)
(* An on-demand command, or the tray's stop item (daemon_stop).            *)
(***************************************************************************)
\* what the steps of the threads leave alone: the build, the environment
\* variables, the files, and the records of the single-call specifications
env == <<platform, envUserProfile, envHome, files, call, resolved, chans>>

\* the front-end invokes a command, or the user picks the stop item
CmdInvoke(verb) ==
  /\ pc["cmd"] = "c_idle"
  /\ pc' = [pc EXCEPT !["cmd"] = "c_resolve"]
  /\ cmd' = [NoCommand EXCEPT !.verb = verb, !.req = RequestType(verb)]
  /\ UNCHANGED <<env, util, ep, auto, tick, tray, daemon>>

\* let Some(ipc_path) = get_ipc_path() else { return ... }
CmdResolve ==
  /\ pc["cmd"] = "c_resolve"
  /\ ep' = [ep EXCEPT !["cmd"] = get_ipc_path]
  /\ IF get_ipc_path.some
     THEN /\ pc' = [pc EXCEPT !["cmd"] = "c_request"]
          /\ cmd' = cmd
     ELSE /\ pc' = [pc EXCEPT !["cmd"] = "c_done"]
          /\ cmd' = [cmd EXCEPT !.result = CommandNoEndpoint(cmd.verb)]
  /\ UNCHANGED <<env, util, auto, tick, tray, daemon>>

\* CmdRequest with one retry of a request that got no response
CmdRequestRetrying ==
  /\ pc["cmd"] = "c_request"
  /\ \E o \in Outcomes :
       LET r == ipc_request(platform, o.fail, o.script) IN
         /\ pc' = [pc EXCEPT !["cmd"] = IF r.hang THEN "c_hung"
                                        ELSE IF ~r.ret.some /\ cmd.calls = 0 THEN "c_request"
                                        ELSE "c_done"]
         /\ cmd' = [cmd EXCEPT !.calls = @ + 1,
                               !.sent = @ + (IF r.sent THEN 1 ELSE 0),
                               !.out = r.ret,
                               !.result = IF r.hang THEN JNull
                                          ELSE CommandReply(cmd.verb, r.ret)]
  /\ UNCHANGED <<env, util, ep, auto, tick, tray, daemon>>

\* CmdRequest of a stop item that also sets the status text when the daemon
\* has accepted the stop
CmdRequestSettingTray ==
  /\ pc["cmd"] = "c_request"
  /\ \E o \in Outcomes :
       LET r == ipc_request(platform, o.fail, o.script) IN
         /\ pc' = [pc EXCEPT !["cmd"] = IF r.hang THEN "c_hung" ELSE "c_done"]
         /\ cmd' = [cmd EXCEPT !.calls = @ + 1,
                               !.sent = @ + (IF r.sent THEN 1 ELSE 0),
                               !.out = r.ret,
                               !.result = IF r.hang THEN JNull
                                          ELSE CommandReply(cmd.verb, r.ret)]
         /\ tray' = IF ~r.hang /\ cmd.verb = "stop" /\ send_stop_request(r.ret) = JBool(TRUE)
                    THEN [tray EXCEPT !.status = "Daemon: not running"]
                    ELSE tray
  /\ UNCHANGED <<env, util, ep, auto, tick, daemon>>

\* the one ipc_request of the command and the decoding of what it returned
CmdRequest ==
  /\ pc["cmd"] = "c_request"
  /\ \E o \in Outcomes :
       LET r == ipc_request(platform, o.fail, o.script) IN
         /\ pc' = [pc EXCEPT !["cmd"] = IF r.hang THEN "c_hung" ELSE "c_done"]
         /\ cmd' = [cmd EXCEPT !.calls = @ + 1,
                               !.sent = @ + (IF r.sent THEN 1 ELSE 0),
                               !.out = r.ret,
                               !.result = IF r.hang THEN JNull
                                          ELSE CommandReply(cmd.verb, r.ret)]
  /\ UNCHANGED <<env, util, ep, auto, tick, tray, daemon>>

\* the result is handed to the caller
CmdReturn ==
  /\ pc["cmd"] = "c_done"
  /\ pc' = [pc EXCEPT !["cmd"] = "c_idle"]
  /\ cmd' = NoCommand
  /\ ep' = [ep EXCEPT !["cmd"] = None]
  /\ UNCHANGED <<env, util, auto, tick, tray, daemon>>

InitCodec ==
  /\ InitEnvApp
  /\ pc = [t \in Threads |-> IF t = "cmd" THEN "c_idle" ELSE "off"]
  /\ ep = [t \in Threads |-> None]
  /\ cmd = NoCommand
  /\ auto = AutoStart
  /\ tick = NoTick
  /\ tray = InitialTray

NextCodec ==
  \/ \E verb \in Verbs : CmdInvoke(verb)
  \/ CmdResolve
  \/ CmdRequest
  \/ CmdReturn
  \/ DaemonStarts
  \/ DaemonExits

SpecCodec == InitCodec /\ [][NextCodec]_vars

(***************************************************************************)
(* Lifecycle Supervisor: auto_start_daemon.                                *)
(***************************************************************************)
\* for _ in 0..20
PollBudget == 20

\* is_daemon_running, from the endpoint resolved and what ipc_request returned
is_daemon_running(ipc_path, ret) ==
  ipc_path.some /\ request_daemon_status(ret).some

\* what one call of is_daemon_running can come to: "hang" (it never returns),
\* "yes" (true) or "no" (false); the endpoint is the one get_ipc_path gives at
\* the call, which the probing actions record in ep["auto"]
LivenessProbes ==
  IF get_ipc_path.some
  THEN {LET r == ipc_request(platform, o.fail, o.script) IN
          IF r.hang THEN "hang"
          ELSE IF is_daemon_running(get_ipc_path, r.ret) THEN "yes" ELSE "no" : o \in Outcomes}
  ELSE {IF is_daemon_running(get_ipc_path, None) THEN "yes" ELSE "no"}

\* AutoProbe of a run that goes on to the lookup whatever the probe said
AutoProbeIgnored ==
  /\ pc["auto"] = "a_probe"
  /\ \E running \in LivenessProbes :
       /\ pc' = [pc EXCEPT !["auto"] = IF running = "hang" THEN "a_hung" ELSE "a_find"]
       /\ auto' = [auto EXCEPT !.probe = running]
  /\ ep' = [ep EXCEPT !["auto"] = get_ipc_path]
  /\ UNCHANGED <<env, util, cmd, tick, tray, daemon>>

\* if is_daemon_running() { return; }
AutoProbe ==
  /\ pc["auto"] = "a_probe"
  /\ \E running \in LivenessProbes :
       /\ pc' = [pc EXCEPT !["auto"] = IF running = "hang" THEN "a_hung"
                                      ELSE IF running = "yes" THEN "a_done" ELSE "a_find"]
       /\ auto' = [auto EXCEPT !.probe = running,
                               !.outcome = IF running = "yes" THEN "already_running" ELSE @]
  /\ ep' = [ep EXCEPT !["auto"] = get_ipc_path]
  /\ UNCHANGED <<env, util, cmd, tick, tray, daemon>>

\* find_daemon_exe: beside the executable, in the resource directory, or Err
AutoFind ==
  /\ pc["auto"] = "a_find"
  /\ \E found \in {"exe_dir", "resource_dir", "none"} :
       /\ pc' = [pc EXCEPT !["auto"] = IF found = "none" THEN "a_done" ELSE "a_spawn"]
       /\ auto' = [auto EXCEPT !.found = IF found = "none" THEN "no" ELSE "yes",
                               !.outcome = IF found = "none" THEN "not_found" ELSE @]
  /\ UNCHANGED <<env, util, ep, cmd, tick, tray, daemon>>

\* spawn_daemon: Command::spawn, detached
AutoSpawn ==
  /\ pc["auto"] = "a_spawn"
  /\ \E ok \in BOOLEAN :
       /\ pc' = [pc EXCEPT !["auto"] = IF ok THEN "a_sleep" ELSE "a_done"]
       /\ auto' = [auto EXCEPT !.outcome = IF ok THEN @ ELSE "spawn_failed"]
       /\ daemon' = [daemon EXCEPT !.spawns = @ + (IF ok THEN 1 ELSE 0)]
  /\ UNCHANGED <<env, util, ep, cmd, tick, tray>>

\* one turn of the loop: thread::sleep(300 ms); if is_daemon_running() { return; }
\* and, after the last turn, the timeout message
AutoPoll ==
  /\ pc["auto"] = "a_sleep"
  /\ \E running \in LivenessProbes :
       /\ pc' = [pc EXCEPT !["auto"] =
                   IF running = "hang" THEN "a_hung"
                   ELSE IF running = "yes" \/ auto.polls + 1 = PollBudget THEN "a_done"
                   ELSE "a_sleep"]
       /\ auto' = [auto EXCEPT
                     !.polls = @ + 1,
                     !.outcome = IF running = "hang" THEN @
                                 ELSE IF running = "yes" THEN "running"
                                 ELSE IF auto.polls + 1 = PollBudget THEN "give_up"
                                 ELSE @]
  /\ ep' = [ep EXCEPT !["auto"] = get_ipc_path]
  /\ UNCHANGED <<env, util, cmd, tick, tray, daemon>>

AutoStep == AutoProbe \/ AutoFind \/ AutoSpawn \/ AutoPoll

(***************************************************************************)
(* Status Synchronizer: the status polling thread.                         *)
(***************************************************************************)
\* SyncWake of a thread that resolves the endpoint once and keeps it
SyncWakeCached ==
  /\ pc["sync"] = "s_sleep"
  /\ ep' = [ep EXCEPT !["sync"] = IF ep["sync"].some THEN ep["sync"] ELSE get_ipc_path]
  /\ pc' = [pc EXCEPT !["sync"] = IF ep'["sync"].some THEN "s_request" ELSE "s_set_status"]
  /\ tick' = NoTick
  /\ UNCHANGED <<env, util, cmd, auto, tray, daemon>>

\* thread::sleep(5 s) returns and get_ipc_path() is matched
SyncWake ==
  /\ pc["sync"] = "s_sleep"
  /\ ep' = [ep EXCEPT !["sync"] = get_ipc_path]
  /\ pc' = [pc EXCEPT !["sync"] = IF get_ipc_path.some THEN "s_request" ELSE "s_set_status"]
  /\ tick' = NoTick
  /\ UNCHANGED <<env, util, cmd, auto, tray, daemon>>

\* match request_daemon_status(&ipc_path)
SyncRequest ==
  /\ pc["sync"] = "s_request"
  /\ \E o \in Outcomes :
       LET r == ipc_request(platform, o.fail, o.script)
           payload == request_daemon_status(r.ret)
       IN /\ pc' = [pc EXCEPT !["sync"] = IF r.hang THEN "s_hung" ELSE "s_set_status"]
          /\ tick' = [tick EXCEPT !.res = IF ~r.hang /\ payload.some
                                          THEN Some(payload.val.active_sessions) ELSE None]
  /\ UNCHANGED <<env, util, ep, cmd, auto, tray, daemon>>

\* SyncSetStatus that skips the call when the text would not change
SyncSetStatusIfChanged ==
  /\ pc["sync"] = "s_set_status"
  /\ pc' = [pc EXCEPT !["sync"] = "s_set_sessions"]
  /\ \E ok \in BOOLEAN :
       IF tray.status = StatusText(tick.res)
       THEN tray' = tray /\ tick' = tick
       ELSE /\ tray' = [tray EXCEPT !.status = IF ok THEN StatusText(tick.res) ELSE @]
            /\ tick' = [tick EXCEPT !.sets = @ + 1,
                                    !.failed = IF ok THEN @ ELSE @ \cup {"status"}]
  /\ UNCHANGED <<env, util, ep, cmd, auto, daemon>>

\* let _ = status_clone.set_text(..): the Result is dropped
SyncSetStatus ==
  /\ pc["sync"] = "s_set_status"
  /\ pc' = [pc EXCEPT !["sync"] = "s_set_sessions"]
  /\ \E ok \in BOOLEAN :
       /\ tray' = [tray EXCEPT !.status = IF ok THEN StatusText(tick.res) ELSE @]
       /\ tick' = [tick EXCEPT !.sets = @ + 1,
                               !.failed = IF ok THEN @ ELSE @ \cup {"status"}]
  /\ UNCHANGED <<env, util, ep, cmd, auto, daemon>>

\* let _ = sessions_clone.set_text(..), and the loop goes back to the sleep
SyncSetSessions ==
  /\ pc["sync"] = "s_set_sessions"
  /\ pc' = [pc EXCEPT !["sync"] = "s_sleep"]
  /\ \E ok \in BOOLEAN :
       /\ tray' = [tray EXCEPT !.sessions = IF ok THEN SessionsText(tick.res) ELSE @]
       /\ tick' = [tick EXCEPT !.sets = @ + 1,
                               !.failed = IF ok THEN @ ELSE @ \cup {"sessions"},
                               !.done = TRUE]
  /\ UNCHANGED <<env, util, ep, cmd, auto, daemon>>

SyncStep == SyncWake \/ SyncRequest \/ SyncSetStatus \/ SyncSetSessions

(***************************************************************************)
(* The setup closure of main.                                              *)
(***************************************************************************)
\* thread::spawn(move || { auto_start_daemon(&app_handle); })
MainSpawnAuto ==
  /\ pc["main"] = "m_spawn_auto"
  /\ pc' = [pc EXCEPT !["main"] = "m_menu", !["auto"] = "a_probe"]
  /\ UNCHANGED <<env, util, ep, cmd, auto, tick, tray, daemon>>

\* MainBuildMenu of a setup that calls auto_start_daemon itself and goes on
\* when it has returned
MainBuildMenuAfterAuto ==
  /\ pc["main"] = "m_menu"
  /\ pc["auto"] = "a_done"
  /\ pc' = [pc EXCEPT !["main"] = "m_spawn_sync"]
  /\ tray' = InitialTray
  /\ UNCHANGED <<env, util, ep, cmd, auto, tick, daemon>>

\* the five MenuItem::with_id and Menu::with_items; the calls into the
\* windowing library are taken to return Ok
MainBuildMenu ==
  /\ pc["main"] = "m_menu"
  /\ pc' = [pc EXCEPT !["main"] = "m_spawn_sync"]
  /\ tray' = InitialTray
  /\ UNCHANGED <<env, util, ep, cmd, auto, tick, daemon>>

\* thread::spawn(move || loop { .. })
MainSpawnSync ==
  /\ pc["main"] = "m_spawn_sync"
  /\ pc' = [pc EXCEPT !["main"] = "m_tray", !["sync"] = "s_sleep"]
  /\ UNCHANGED <<env, util, ep, cmd, auto, tick, tray, daemon>>

\* tray.set_menu, tray.on_menu_event, tray.on_tray_icon_event, Ok(())
MainSetTray ==
  /\ pc["main"] = "m_tray"
  /\ pc' = [pc EXCEPT !["main"] = "m_done", !["cmd"] = "c_idle"]
  /\ UNCHANGED <<env, util, ep, cmd, auto, tick, tray, daemon>>

MainStep == MainSpawnAuto \/ MainBuildMenu \/ MainSpawnSync \/ MainSetTray

(***************************************************************************)
(* Specification of the process from the start of the setup closure.       *)
(***************************************************************************)
InitApp ==
  /\ InitEnvApp
  /\ pc = [t \in Threads |-> IF t = "main" THEN "m_spawn_auto" ELSE "off"]
  /\ ep = [t \in Threads |-> None]
  /\ cmd = NoCommand
  /\ auto = AutoStart
  /\ tick = NoTick
  /\ tray = NoTray

NextApp ==
  \/ MainSpawnAuto
  \/ MainBuildMenu
  \/ MainSpawnSync
  \/ MainSetTray
  \/ AutoProbe
  \/ AutoFind
  \/ AutoSpawn
  \/ AutoPoll
  \/ SyncWake
  \/ SyncRequest
  \/ SyncSetStatus
  \/ SyncSetSessions
  \/ DaemonStarts
  \/ DaemonExits

SpecApp == InitApp /\ [][NextApp]_vars

(***************************************************************************)
(* Specification of the status polling thread once the setup closure has   *)
(* spawned it, and the same with the scheduling it runs under:             *)
(* thread::sleep returns, and a thread that can take a step takes it.      *)
(***************************************************************************)
InitSync ==
  /\ InitEnvApp
  /\ pc = [t \in Threads |-> IF t = "main" THEN "m_done"
                               ELSE IF t = "sync" THEN "s_sleep" ELSE "off"]
  /\ ep = [t \in Threads |-> None]
  /\ cmd = NoCommand
  /\ auto = AutoStart
  /\ tick = NoTick
  /\ tray = InitialTray

NextSync ==
  \/ SyncWake
  \/ SyncRequest
  \/ SyncSetStatus
  \/ SyncSetSessions
  \/ DaemonStarts
  \/ DaemonExits

SpecSync == InitSync /\ [][NextSync]_vars

FairSpecSync == SpecSync /\ WF_vars(SyncStep)

(***************************************************************************)
(* Claims about the Transport (SpecTransport).                             *)
(***************************************************************************)
\* the script's chunks are whitespace around exactly one JSON document
OneDocument(script) ==
  /\ Cardinality({i \in 1..Len(script.chunks) : script.chunks[i].c.c = "doc"}) = 1
  /\ \A i \in 1..Len(script.chunks) : script.chunks[i].c.c \in {"doc", "ws"}

TheDocument(script) ==
  LET i == CHOOSE j \in 1..Len(script.chunks) : script.chunks[j].c.c = "doc" IN
    script.chunks[i].c.v

RECURSIVE SumDelays(_, _)
SumDelays(chunks, i) ==
  IF i > Len(chunks) THEN 0 ELSE chunks[i].d + SumDelays(chunks, i + 1)

\* seconds after the start of the read at which the responder ends the line
LineEndsAt(script) == SumDelays(script.chunks, 1) + script.end.d

\* C1 (as amended): ipc_request returns None whenever it failed before the
\* read, the read failed or timed out, the stream ended with nothing read, or
\* the text read is not one JSON document; it returns a value only when
\* read_line succeeded - the text ended by a newline or by the end of the
\* stream - and that text, trimmed, is one JSON document, and the value is
\* that document; on unix every such text yields the value.
C1_Theorem ==
  call.st = "returned" =>
    LET r == call.res
        s == call.script
        lineRead == call.fail = "none" /\ s.end.k \in {"nl", "eof"} /\ OneDocument(s)
    IN /\ r.ret.some => lineRead /\ r.ret.val = TheDocument(s)
       /\ ~r.ret.some => r.ret = None
       /\ call.fail # "none" => r.ret = None
       /\ s.end.k \in {"err", "quiet"} => r.ret = None
       /\ s.end.k = "eof" /\ s.chunks = <<>> => r.ret = None
       /\ ~OneDocument(s) => r.ret = None
       /\ lineRead /\ (platform = "unix" \/ LineEndsAt(s) < ReadTimeout) => r.ret.some

\* C1 witness: a call whose request was written and that read a whole line
\* which is not valid JSON returned None
C1_Witness ==
  /\ call.st = "returned"
  /\ call.fail = "none"
  /\ call.script.end.k = "nl"
  /\ \E i \in 1..Len(call.script.chunks) : call.script.chunks[i].c = Junk
  /\ call.res.ret = None

\* C1 as stated: a value is returned only when one complete, newline-terminated
\* line was read
C1_Original ==
  call.st = "returned" /\ call.res.ret.some => call.script.end.k = "nl"

\* C2 as stated: whenever the responder does not end the line within the
\* timeout, ipc_request returns None no later than the timeout (plus a margin
\* of one second) after the read started, and it never hangs
C2_Claim ==
  call.st # "idle" /\ call.fail = "none"
    /\ (call.script.end.k \in {"quiet", "drip"} \/ LineEndsAt(call.script) >= ReadTimeout)
  => /\ call.st = "returned"
     /\ call.res.ret = None
     /\ call.res.el <= ReadTimeout + 1

(***************************************************************************)
(* Specification of the Endpoint Locator: the environment and the lock     *)
(* files are drawn from the bounded sets, the daemon rewrites or removes a *)
(* lock file at any time, and get_ipc_path is called.                      *)
(***************************************************************************)
othersOfLocator == <<call, pc, ep, cmd, auto, tick, tray, daemon, chans, util>>

InitLocator ==
  /\ platform \in {"unix", "windows"}
  /\ envUserProfile \in {None, Some(UserProfileDir)}
  /\ envHome \in {None, Some(HomeDir)}
  /\ files \in [LockPaths -> FileStates]
  /\ resolved = [st |-> "idle"]
  /\ call = [st |-> "idle"]
  /\ InitThreadsNone
  /\ chans = NoChannels
  /\ util = NoUtil

\* the lock file the call looks at, as it is when the call is made
LockFileNow ==
  IF get_lock_file_path.some THEN files[get_lock_file_path.val] ELSE Absent

\* one call of get_ipc_path
Resolve ==
  /\ resolved' = [st |-> "done", home |-> get_home_dir, lock |-> LockFileNow,
                  ret |-> get_ipc_path]
  /\ UNCHANGED <<platform, envUserProfile, envHome, files, othersOfLocator>>

\* the daemon (or anyone) writes, corrupts or removes a lock file
LockFileChanges ==
  /\ \E p \in LockPaths, f \in FileStates :
       /\ files[p] # f
       /\ files' = [files EXCEPT ![p] = f]
  /\ UNCHANGED <<platform, envUserProfile, envHome, resolved, othersOfLocator>>

NextLocator == Resolve \/ LockFileChanges

SpecLocator == InitLocator /\ [][NextLocator]_vars

(***************************************************************************)
(* Claims about the Endpoint Locator (SpecLocator).                        *)
(***************************************************************************)
\* the default convention, from the platform and the home directory alone
PlatformDefault(plat, home) ==
  IF plat = "windows" THEN Some("\\\\.\\pipe\\felay")
  ELSE IF home.some THEN Some(home.val \o "/.felay/daemon.sock") ELSE None

\* the home directory the environment gives: USERPROFILE first, then HOME
HomeOfEnv ==
  IF envUserProfile # None THEN envUserProfile ELSE envHome

\* C3: the result of get_ipc_path is the ipc field of the lock file whenever
\* that file exists and parses as {pid, ipc}; whenever it is absent,
\* unreadable or malformed the result is the platform default, which is an
\* endpoint (not a failure) whenever the home directory is known; the lock
\* file looked at is the one under the home directory of the call.
C3_Theorem ==
  resolved.st = "done" =>
    /\ resolved.lock.st = "file" /\ resolved.lock.text \in GoodLockTexts
         => resolved.ret = Some(PublishedIpc)
    /\ resolved.lock.st # "file" \/ resolved.lock.text \in BadLockTexts
         => /\ resolved.ret = PlatformDefault(platform, resolved.home)
            /\ resolved.home.some => resolved.ret.some
    /\ resolved.home = HomeOfEnv

\* C3 witness: a call made while a malformed lock file was present returned
\* the unix default, and a well-formed lock file has been written since
C3_Witness ==
  /\ resolved.st = "done"
  /\ platform = "unix"
  /\ resolved.lock.st = "file" /\ resolved.lock.text \in BadLockTexts
  /\ resolved.home = Some(HomeDir)
  /\ resolved.ret = Some("/home/u/.felay/daemon.sock")
  /\ files[LockPathOf(HomeDir)].st = "file"
  /\ files[LockPathOf(HomeDir)].text \in GoodLockTexts

(***************************************************************************)
(* Claims about the commands (SpecCodec).                                  *)
(***************************************************************************)
\* a command has returned from its one ipc_request
Answered(verbs) ==
  pc["cmd"] = "c_done" /\ cmd.verb \in verbs /\ cmd.calls = 1

\* the Transport returned a well-formed generic outcome
GotOutcome == cmd.out.some /\ cmd.out.val \in OutcomeDocs

NoResponse == OkError(FALSE, JStr("no response from daemon"))

OutcomeOf(doc) ==
  LET p == doc.o["payload"].o IN
    OkError(p["ok"].b, IF "error" \in DOMAIN p THEN p["error"] ELSE JNull)

C5_Claim ==
  /\ Answered({"read_daemon_status"}) =>
       IF cmd.out.some /\ cmd.out.val \in StatusDocs
       THEN cmd.result.running /\ cmd.result.daemon_pid = Some(4242)
       ELSE cmd.result = NotRunningStatus
  /\ Answered({"list_bots"}) /\ cmd.out # Some(BotsDoc) => cmd.result = EmptyBots
  /\ Answered(PayloadVerbs \ {"list_bots"})
       /\ (~cmd.out.some \/ ~JGet(cmd.out.val, "payload").some) => cmd.result = JNull

\* the responses whose payload carries ok = true
StopAccepted ==
  {v \in Docs : /\ JGet(v, "payload").some
                /\ JGet(JGet(v, "payload").val, "ok") = Some(JBool(TRUE))}

\* C8: one stop action makes at most one ipc_request and writes stop_request
\* at most once - exactly once when the Transport got a response - and none
\* when the endpoint does not resolve; it returns true exactly when the
\* response carries payload.ok = true, false otherwise; and its request step
\* never waits for the daemon to exit.
C8_Theorem ==
  cmd.verb = "stop" =>
    /\ cmd.calls <= 1 /\ cmd.sent <= cmd.calls
    /\ cmd.req = "stop_request"
    /\ pc["cmd"] = "c_request" => ENABLED CmdRequest
    /\ pc["cmd"] = "c_done" =>
         /\ cmd.calls = (IF ep["cmd"].some THEN 1 ELSE 0)
         /\ cmd.out.some => cmd.sent = 1
         /\ cmd.result = JBool(cmd.out.some /\ cmd.out.val \in StopAccepted)

\* C8 witness: stop has returned true while the daemon is still running
C8_Witness ==
  /\ pc["cmd"] = "c_done" /\ cmd.verb = "stop"
  /\ cmd.sent = 1
  /\ cmd.result = JBool(TRUE)
  /\ daemon.up

(***************************************************************************)
(* Claims about auto_start_daemon and the setup closure (SpecApp).         *)
(***************************************************************************)
\* The counting half of C6, which holds: a run makes at most PollBudget polls,
\* makes none after the probe or a poll has found the daemon running, and has
\* made exactly PollBudget when it gives up; the runs that end without a
\* spawn make none.
AutoStartCounting ==
  /\ auto.polls <= PollBudget
  /\ auto.outcome \in {"already_running", "running"} => pc["auto"] = "a_done"
  /\ auto.outcome = "give_up" => auto.polls = PollBudget /\ pc["auto"] = "a_done"
  /\ auto.outcome \in {"already_running", "not_found", "spawn_failed"} => auto.polls = 0

\* auto_start_daemon is inside a call of is_daemon_running that never returns
AutoBlocked == pc["auto"] = "a_hung"

\* C6: one run of auto_start_daemon makes at most 20 polls after the spawn,
\* stops polling at the first successful probe, has made exactly 20 when it
\* gives up, and terminates: it is never inside a probe that does not return
\* (its other steps always return, and the poll counter bounds their number).
C6_Claim ==
  /\ AutoStartCounting
  /\ ~AutoBlocked

\* a step in which auto_start_daemon moves
AutoMoves == pc["auto"] # "off" /\ (pc'["auto"] # pc["auto"] \/ auto' # auto)

\* C7: auto-start never holds up or disturbs the setup closure or any other
\* task: whatever auto_start_daemon is doing, the setup closure can take its
\* next step until it has returned Ok, and no step of auto_start_daemon
\* (a not-found, a failed spawn and the give-up included) changes the
\* position or the endpoint of another thread, the tray texts, the
\* synchronizer's tick or a command.
C7_Theorem ==
  /\ [](pc["main"] # "m_done" => ENABLED MainStep)
  /\ [][AutoMoves => /\ \A t \in Threads \ {"auto"} : pc'[t] = pc[t] /\ ep'[t] = ep[t]
                     /\ UNCHANGED <<tray, tick, cmd>>]_vars

\* the setup closure has returned, the synchronizer has completed a tick, and
\* auto-start has given up after its polls
C7_Witness ==
  /\ pc["main"] = "m_done"
  /\ tick.done
  /\ pc["auto"] = "a_done"
  /\ auto.outcome = "give_up"

(***************************************************************************)
(* Claims about the status polling thread (SpecSync, FairSpecSync).        *)
(***************************************************************************)
TickCompleted == pc["sync"] = "s_sleep" /\ tick.done

\* C9 as amended: every completed tick has called set_text on both items,
\* whether or not the text changes; an item whose set_text succeeded reads
\* what this tick's probe says ("running" and the payload's active_sessions,
\* or "not running" and 0 on any resolution, transport or decode failure),
\* whatever it read before.  A set_text that returned Err is ignored and
\* leaves the item as it was.
C9_Theorem ==
  TickCompleted =>
    /\ tick.sets = 2
    /\ "status" \notin tick.failed =>
         tray.status = (IF tick.res.some THEN "Daemon: running" ELSE "Daemon: not running")
    /\ "sessions" \notin tick.failed =>
         tray.sessions = <<"sessions", IF tick.res.some THEN tick.res.val ELSE 0>>

\* a tick has completed on a successful probe reporting one active session
\* and both texts were set
C9_Witness ==
  /\ TickCompleted
  /\ tick.res = Some(1)
  /\ tick.failed = {}
  /\ tray = [status |-> "Daemon: running", sessions |-> <<"sessions", 1>>]

\* C9 as stated: after every completed tick the tray state is a function of
\* that tick's probe outcome alone.
C9_Original ==
  TickCompleted =>
    /\ tray.status = (IF tick.res.some THEN "Daemon: running" ELSE "Daemon: not running")
    /\ tray.sessions = <<"sessions", IF tick.res.some THEN tick.res.val ELSE 0>>

\* C10: the synchronizer completes infinitely many ticks.
C10_Claim == []<><<SyncSetSessions>>_vars

(***************************************************************************)
(* Sanitization of the config document: sanitize_value, sanitize_config.   *)
(***************************************************************************)
\* const SENSITIVE
SENSITIVE == {"appSecret", "encryptKey", "secret", "webhook"}

\* str::contains
contains(k, s) ==
  \E i \in 1..(Len(k) - Len(s) + 1) : SubSeq(k, i, i + Len(s) - 1) = s

\* SENSITIVE.iter().any(|s| k.contains(s))
IsSensitive(k) == \E s \in SENSITIVE : contains(k, s)

MaskToken == JStr("***")

RECURSIVE sanitize_value(_)
\* sanitize_value without the test for the empty string
sanitize_value_masking_empty(value) ==
  IF value.t = "obj"
  THEN JObj([k \in DOMAIN value.o |->
               IF IsSensitive(k)
               THEN IF value.o[k].t = "str" THEN MaskToken ELSE value.o[k]
               ELSE sanitize_value(value.o[k])])
  ELSE IF value.t = "arr"
  THEN JArr([i \in DOMAIN value.a |-> sanitize_value(value.a[i])])
  ELSE value

sanitize_value(value) ==
  IF value.t = "obj"
  THEN JObj([k \in DOMAIN value.o |->
               IF IsSensitive(k)
               THEN IF value.o[k].t = "str" /\ value.o[k].s # "" THEN MaskToken
                    ELSE value.o[k]
               ELSE sanitize_value(value.o[k])])
  ELSE IF value.t = "arr"
  THEN JArr([i \in DOMAIN value.a |-> sanitize_value(value.a[i])])
  ELSE value

\* sanitize_config: the text parsed, sanitized and printed again, or the raw
\* text when it is not JSON
sanitize_config(raw) ==
  IF FromStr(raw).some THEN <<Doc(sanitize_value(FromStr(raw).val))>> ELSE raw

\* config documents: leaves, and objects and arrays of shallower documents
ConfigLeaves == {JStr("tok"), JStr(""), JNum(7)}

RECURSIVE ConfigDocs(_)
ConfigDocs(depth) ==
  IF depth = 0 THEN ConfigLeaves
  ELSE LET V == ConfigDocs(depth - 1) IN
         ConfigLeaves
           \cup {JObj("appSecret" :> v) : v \in V}
           \cup {JObj("cwd" :> v) : v \in V}
           \cup {JObj(("webhookUrl" :> v) @@ ("cwd" :> l)) : v \in V, l \in ConfigLeaves}
           \cup {JArr(<<v>>) : v \in V}

InitSanitize ==
  /\ platform \in {"unix", "windows"}
  /\ call = [st |-> "idle"]
  /\ InitEnvNone
  /\ InitThreadsNone
  /\ chans = NoChannels
  /\ util \in {[op |-> "sanitize", st |-> "input", doc |-> v, out |-> JNull] :
                 v \in ConfigDocs(MaxDepth)}

\* sanitize_value(&mut json)
Sanitize ==
  /\ util.op = "sanitize"
  /\ util.st = "input"
  /\ util' = [util EXCEPT !.st = "done", !.out = sanitize_value(util.doc)]
  /\ UNCHANGED <<env, pc, ep, cmd, auto, tick, tray, daemon>>

NextSanitize == Sanitize

SpecSanitize == InitSanitize /\ [][NextSanitize]_vars

(***************************************************************************)
(* Diagnostic bundle export: collect_logs.                                 *)
(***************************************************************************)
\* for name in ["daemon.json", "proxy-debug.log", "proxy-hook-debug.log"]
LogNames == <<"daemon.json", "proxy-debug.log", "proxy-hook-debug.log">>

\* felay_dir.join(name)
DataPath(home, name) == home \o "/.felay/" \o name

\* Path::exists
exists(path) == path \in DOMAIN files /\ files[path].st # "absent"

\* fs::read(path): the bytes of a file that can be read
fs_read(path) ==
  IF path \in DOMAIN files /\ files[path].st = "file" THEN Some(files[path].text) ELSE None

\* Result<String, String>
Ok(v) == [ok |-> TRUE, val |-> v]
Err(e) == [ok |-> FALSE, err |-> e]

\* the path the save dialog returns
SavePath == "/home/u/felay-logs.zip"

\* the text of system-info.txt; version, OS, architecture and timestamp do
\* not vary in the model
SysInfo(lockExists) == <<[c |-> "sysinfo", lock |-> lockExists]>>

\* collect_logs not yet past its first line
ExportStart ==
  [op |-> "export", st |-> "e_begin", i |-> 1, entries |-> <<>>, failed |-> {},
   result |-> None]

\* an early return of collect_logs
ExportReturn(u, res) == [u EXCEPT !.st = "e_done", !.result = Some(res)]

\* get_home_dir().ok_or(..)?, the save dialog, into_path
ExportBegin ==
  /\ util.op = "export" /\ util.st = "e_begin"
  /\ IF ~get_home_dir.some
     THEN util' = ExportReturn(util, Err("Cannot determine home directory"))
     ELSE \E dialog \in {"cancelled", "invalid", "chosen"} :
            util' = IF dialog = "cancelled" THEN ExportReturn(util, Err("User cancelled"))
                    ELSE IF dialog = "invalid" THEN ExportReturn(util, Err("Invalid save path"))
                    ELSE [util EXCEPT !.st = "e_create"]
  /\ UNCHANGED <<env, pc, ep, cmd, auto, tick, tray, daemon>>

\* fs::File::create(&save_path).map_err(..)?
ExportCreate ==
  /\ util.op = "export" /\ util.st = "e_create"
  /\ \E ok \in BOOLEAN :
       util' = IF ok THEN [util EXCEPT !.st = "e_logs"]
               ELSE ExportReturn([util EXCEPT !.failed = @ \cup {"create"}],
                                 Err("Cannot create file"))
  /\ UNCHANGED <<env, pc, ep, cmd, auto, tick, tray, daemon>>

\* one turn of the loop over the log files: exists, fs::read, start_file,
\* write_all
ExportLog ==
  /\ util.op = "export" /\ util.st = "e_logs"
  /\ LET name == LogNames[util.i]
         path == DataPath(get_home_dir.val, name)
         next == IF util.i = Len(LogNames) THEN "e_config" ELSE "e_logs"
         on == [util EXCEPT !.st = next, !.i = IF util.i = Len(LogNames) THEN @ ELSE @ + 1]
     IN IF ~exists(path) THEN util' = on
        ELSE IF ~fs_read(path).some
        THEN util' = [on EXCEPT !.failed = @ \cup {"read " \o name}]
        ELSE \E io \in {"ok", "start_file", "write"} :
               util' =
                 IF io = "ok"
                 THEN [on EXCEPT !.entries =
                         Append(@, [name |-> name, bytes |-> fs_read(path).val])]
                 ELSE ExportReturn([util EXCEPT !.failed = @ \cup {io \o " " \o name}],
                                   Err("zip " \o io \o " '" \o name \o "'"))
  /\ UNCHANGED <<env, pc, ep, cmd, auto, tick, tray, daemon>>

\* config.json: exists, fs::read_to_string, sanitize_config, start_file,
\* write_all
ExportConfig ==
  /\ util.op = "export" /\ util.st = "e_config"
  /\ LET path == DataPath(get_home_dir.val, "config.json")
         on == [util EXCEPT !.st = "e_sysinfo"]
     IN IF ~exists(path) THEN util' = on
        ELSE IF ~read_to_string(path).some
        THEN util' = [on EXCEPT !.failed = @ \cup {"read config.json"}]
        ELSE \E io \in {"ok", "start_file", "write"} :
               util' =
                 IF io = "ok"
                 THEN [on EXCEPT !.entries =
                         Append(@, [name |-> "config-sanitized.json",
                                    bytes |-> sanitize_config(read_to_string(path).val)])]
                 ELSE ExportReturn([util EXCEPT !.failed = @ \cup {io \o " config"}],
                                   Err("zip " \o io \o " config"))
  /\ UNCHANGED <<env, pc, ep, cmd, auto, tick, tray, daemon>>

\* system-info.txt: format!, start_file, write_all
ExportSysInfo ==
  /\ util.op = "export" /\ util.st = "e_sysinfo"
  /\ \E io \in {"ok", "start_file", "write"} :
       util' =
         IF io = "ok"
         THEN [util EXCEPT !.st = "e_finish", !.entries =
                 Append(@, [name |-> "system-info.txt",
                            bytes |-> SysInfo(exists(DataPath(get_home_dir.val,
                                                              "daemon.json")))])]
         ELSE ExportReturn([util EXCEPT !.failed = @ \cup {io \o " sysinfo"}],
                           Err("zip " \o io \o " sysinfo"))
  /\ UNCHANGED <<env, pc, ep, cmd, auto, tick, tray, daemon>>

\* zip.finish().map_err(..)?; Ok(save_path)
ExportFinish ==
  /\ util.op = "export" /\ util.st = "e_finish"
  /\ \E ok \in BOOLEAN :
       util' = IF ok THEN ExportReturn(util, Ok(SavePath))
               ELSE ExportReturn([util EXCEPT !.failed = @ \cup {"finish"}],
                                 Err("Failed to finalize zip"))
  /\ UNCHANGED <<env, pc, ep, cmd, auto, tick, tray, daemon>>

\* the data directory: each log file absent, unreadable or holding bytes;
\* config.json absent, unreadable, a JSON document, or text that is no JSON
\* document: junk, or a document with junk after it
DataDirs ==
  {(DataPath(HomeDir, LogNames[1]) :> f1) @@ (DataPath(HomeDir, LogNames[2]) :> f2)
     @@ (DataPath(HomeDir, LogNames[3]) :> f3) @@ (DataPath(HomeDir, "config.json") :> c) :
     f1 \in {Absent, Unreadable, TextFile(<<Doc(LockDoc(4242, PublishedIpc))>>)},
     f2 \in {Absent, Unreadable, TextFile(<<Junk, NlCh>>)},
     f3 \in {Absent, Unreadable, TextFile(<<Junk>>)},
     c \in {Absent, Unreadable, TextFile(<<Junk>>),
            TextFile(<<Doc(JObj("appSecret" :> JStr("tok"))), Junk>>),
            TextFile(<<Ws, Doc(JObj(("appSecret" :> JStr("tok")) @@ ("cwd" :> JStr("/w")))),
                       NlCh>>)}}

InitExport ==
  /\ platform \in {"unix", "windows"}
  /\ envUserProfile = None
  /\ envHome \in {None, Some(HomeDir)}
  /\ files \in DataDirs
  /\ resolved = [st |-> "idle"]
  /\ call = [st |-> "idle"]
  /\ InitThreadsNone
  /\ chans = NoChannels
  /\ util = ExportStart

NextExport ==
  \/ ExportBegin
  \/ ExportCreate
  \/ ExportLog
  \/ ExportConfig
  \/ ExportSysInfo
  \/ ExportFinish

SpecExport == InitExport /\ [][NextExport]_vars

(***************************************************************************)
(* Update check: version_gt, check_update.                                 *)
(***************************************************************************)
Digits == "0123456789"

CharAt(s, i) == SubSeq(s, i, i)

IsDigit(ch) == \E d \in 1..Len(Digits) : CharAt(Digits, d) = ch

DigitVal(ch) == (CHOOSE d \in 1..Len(Digits) : CharAt(Digits, d) = ch) - 1

RECURSIVE DecVal(_)
DecVal(p) ==
  IF Len(p) = 0 THEN 0
  ELSE 10 * DecVal(SubSeq(p, 1, Len(p) - 1)) + DigitVal(CharAt(p, Len(p)))

\* p.parse::<u64>().ok() for the strings of the model (no sign, no overflow)
parse_u64(p) ==
  IF Len(p) > 0 /\ \A i \in 1..Len(p) : IsDigit(CharAt(p, i)) THEN Some(DecVal(p)) ELSE None

\* str::split(sep)
RECURSIVE split(_, _)
split(s, sep) ==
  IF \E i \in 1..Len(s) : CharAt(s, i) = sep
  THEN LET i == CHOOSE i \in 1..Len(s) :
                  CharAt(s, i) = sep /\ \A j \in 1..(i - 1) : CharAt(s, j) # sep
       IN <<SubSeq(s, 1, i - 1)>> \o split(SubSeq(s, i + 1, Len(s)), sep)
  ELSE <<s>>

\* str::trim_start_matches('v')
RECURSIVE trim_start_matches_v(_)
trim_start_matches_v(s) ==
  IF Len(s) > 0 /\ CharAt(s, 1) = "v" THEN trim_start_matches_v(SubSeq(s, 2, Len(s))) ELSE s

\* the closure parse of version_gt: s.split('.').filter_map(|p| p.parse().ok())
RECURSIVE parse_version(_)
parse_version(parts) ==
  IF Len(parts) = 0 THEN <<>>
  ELSE (IF parse_u64(Head(parts)).some THEN <<parse_u64(Head(parts)).val>> ELSE <<>>)
         \o parse_version(Tail(parts))

\* v.get(i).copied().unwrap_or(0)
PartOr0(v, i) == IF i <= Len(v) THEN v[i] ELSE 0

\* the loop of version_gt over the first three parts
TripleGt(x, y) ==
  \/ x[1] > y[1]
  \/ x[1] = y[1] /\ x[2] > y[2]
  \/ x[1] = y[1] /\ x[2] = y[2] /\ x[3] > y[3]

version_gt(a, b) ==
  LET va == parse_version(split(a, "."))
      vb == parse_version(split(b, "."))
  IN TripleGt(<<PartOr0(va, 1), PartOr0(va, 2), PartOr0(va, 3)>>,
              <<PartOr0(vb, 1), PartOr0(vb, 2), PartOr0(vb, 3)>>)

\* json[key].as_str().unwrap_or(default)
StrOr(json, key, default) ==
  IF JGet(json, key).some /\ JGet(json, key).val.t = "str" THEN JGet(json, key).val.s
  ELSE default

\* what the network gives one update check: the client cannot be built, the
\* request fails, or a response with a status, an optional etag header and a
\* body that is JSON or not
ReleaseDoc(tag) ==
  JObj(("tag_name" :> JStr(tag)) @@ ("html_url" :> JStr("https://r")) @@ ("body" :> JStr("notes")))

Tags ==
  {"v1.2.0", "1.2.0", "v1.0.0", "v2.0", "v1", "v1.2.0-beta", "v1.10.0", "v1.2.3.4",
   "vv1.3.0", "v1.x.5", "v1..5"}

Currents == {"0.1.0", "1.0.0", "1.1.9", "1.2.0", "1.9.9"}

Statuses == {200, 201, 304, 403, 500}

is_success(status) == status >= 200 /\ status <= 299

UpdateResponses ==
  {[k |-> "build_err"], [k |-> "send_err"]}
    \cup {[k |-> "resp", status |-> st, etag |-> None, body |-> None] :
            st \in {x \in Statuses : ~is_success(x)}}
    \cup {[k |-> "resp", status |-> st, etag |-> e, body |-> b] :
            st \in {x \in Statuses : is_success(x)},
            e \in {None, Some("W/new")},
            b \in {None, Some(JNum(42))} \cup {Some(ReleaseDoc(t)) : t \in Tags}}

CachedEtags == {None, Some(""), Some("W/old")}

\* check_update that attaches the header whenever an etag is supplied and
\* answers a 304 with the etag of the response
check_update_echoing_response(cached_etag, current, net) ==
  IF net.k = "build_err" THEN [req |-> None, result |-> Err("build")]
  ELSE LET req == Some([if_none_match |-> cached_etag]) IN
    IF net.k = "send_err" THEN [req |-> req, result |-> Err("send")]
    ELSE [req |-> req,
          result |-> Ok([not_modified |-> net.status = 304,
                         etag |-> IF net.etag.some THEN net.etag.val ELSE "",
                         has_update |-> FALSE, current_version |-> current,
                         latest_version |-> "", release_url |-> "", release_notes |-> ""])]

\* check_update: the request built and what is returned
check_update(cached_etag, current, net) ==
  IF net.k = "build_err" THEN [req |-> None, result |-> Err("build")]
  ELSE LET req == Some([if_none_match |->
                          IF cached_etag.some /\ cached_etag.val # "" THEN cached_etag
                          ELSE None])
       IN
    IF net.k = "send_err" THEN [req |-> req, result |-> Err("send")]
    ELSE IF net.status = 304
    THEN [req |-> req,
          result |-> Ok([not_modified |-> TRUE,
                         etag |-> IF cached_etag.some THEN cached_etag.val ELSE "",
                         has_update |-> FALSE, current_version |-> current,
                         latest_version |-> "", release_url |-> "", release_notes |-> ""])]
    ELSE IF ~is_success(net.status)
    THEN [req |-> req, result |-> Err("GitHub API returned")]
    ELSE IF ~net.body.some THEN [req |-> req, result |-> Err("json")]
    ELSE LET json == net.body.val
             tag == StrOr(json, "tag_name", "v0.0.0")
             latest == Head(split(trim_start_matches_v(tag), "-"))
         IN [req |-> req,
             result |-> Ok([not_modified |-> FALSE,
                            etag |-> IF net.etag.some THEN net.etag.val ELSE "",
                            has_update |-> version_gt(latest, current),
                            current_version |-> current,
                            latest_version |-> tag,
                            release_url |-> StrOr(json, "html_url", ""),
                            release_notes |-> StrOr(json, "body", "")])]

InitUpdate ==
  /\ platform \in {"unix", "windows"}
  /\ call = [st |-> "idle"]
  /\ InitEnvNone
  /\ InitThreadsNone
  /\ chans = NoChannels
  /\ util \in {[op |-> "update", st |-> "u_call", cached_etag |-> e, current |-> c,
                net |-> None, req |-> None, result |-> None] :
                 e \in CachedEtags, c \in Currents}

\* one invocation of check_update
CheckUpdate ==
  /\ util.op = "update" /\ util.st = "u_call"
  /\ \E net \in UpdateResponses :
       LET r == check_update(util.cached_etag, util.current, net) IN
         util' = [util EXCEPT !.st = "u_done", !.net = Some(net), !.req = r.req,
                              !.result = Some(r.result)]
  /\ UNCHANGED <<env, pc, ep, cmd, auto, tick, tray, daemon>>

NextUpdate == CheckUpdate

SpecUpdate == InitUpdate /\ [][NextUpdate]_vars

(***************************************************************************)
(* Explicit start: find_daemon_exe, spawn_daemon, start_daemon.            *)
(***************************************************************************)
\* daemon_name
DaemonName == IF platform = "windows" THEN "felay-daemon.exe" ELSE "felay-daemon"

\* where the executable can be: current_exe() and its parent, the file beside
\* the GUI executable, resource_dir() and the file in it
Installs ==
  [current_exe : {"ok", "err", "no_parent"}, beside : BOOLEAN,
   resource_dir : BOOLEAN, in_resources : BOOLEAN]

find_daemon_exe(inst) ==
  IF inst.current_exe = "err" THEN Err("current_exe")
  ELSE IF inst.current_exe = "no_parent" THEN Err("cannot determine exe dir")
  ELSE IF inst.beside THEN Ok("exe_dir/" \o DaemonName)
  ELSE IF inst.resource_dir /\ inst.in_resources THEN Ok("resource_dir/" \o DaemonName)
  ELSE Err("daemon not found: " \o DaemonName)

\* start_daemon not yet past its first line
StartBegin ==
  [op |-> "start", st |-> "d_probe", probe |-> "none", found |-> None, spawn |-> "none",
   result |-> JNull]

\* if is_daemon_running() { return json!({ "ok": true, "already_running": true }) }
StartProbe ==
  /\ util.op = "start" /\ util.st = "d_probe"
  /\ \E running \in LivenessProbes :
       util' = [util EXCEPT
                  !.probe = running,
                  !.st = IF running = "hang" THEN "d_hung"
                         ELSE IF running = "yes" THEN "d_done" ELSE "d_find",
                  !.result = IF running = "yes"
                             THEN JObj(("ok" :> JBool(TRUE)) @@ ("already_running" :> JBool(TRUE)))
                             ELSE @]
  /\ UNCHANGED <<env, pc, ep, cmd, auto, tick, tray, daemon>>

\* match find_daemon_exe(&app)
StartFind ==
  /\ util.op = "start" /\ util.st = "d_find"
  /\ \E inst \in Installs :
       LET found == find_daemon_exe(inst) IN
         util' = [util EXCEPT
                    !.found = Some(found),
                    !.st = IF found.ok THEN "d_spawn" ELSE "d_done",
                    !.result = IF found.ok THEN @
                               ELSE JObj(("ok" :> JBool(FALSE)) @@ ("error" :> JStr(found.err)))]
  /\ UNCHANGED <<env, pc, ep, cmd, auto, tick, tray, daemon>>

\* StartSpawn that answers ok whatever spawn_daemon returned
StartSpawnUnchecked ==
  /\ util.op = "start" /\ util.st = "d_spawn"
  /\ \E ok \in BOOLEAN :
       /\ util' = [util EXCEPT !.spawn = IF ok THEN "ok" ELSE "err", !.st = "d_done",
                               !.result = JObj("ok" :> JBool(TRUE))]
       /\ daemon' = [daemon EXCEPT !.spawns = @ + (IF ok THEN 1 ELSE 0)]
  /\ UNCHANGED <<env, pc, ep, cmd, auto, tick, tray>>

\* match spawn_daemon(&daemon_path)
StartSpawn ==
  /\ util.op = "start" /\ util.st = "d_spawn"
  /\ \E ok \in BOOLEAN :
       /\ util' = [util EXCEPT
                     !.spawn = IF ok THEN "ok" ELSE "err",
                     !.st = "d_done",
                     !.result = IF ok THEN JObj("ok" :> JBool(TRUE))
                                ELSE JObj(("ok" :> JBool(FALSE))
                                          @@ ("error" :> JStr("spawn failed")))]
       /\ daemon' = [daemon EXCEPT !.spawns = @ + (IF ok THEN 1 ELSE 0)]
  /\ UNCHANGED <<env, pc, ep, cmd, auto, tick, tray>>

\* the environment of the threads, with start_daemon invoked
InitStart ==
  /\ platform \in {"unix", "windows"}
  /\ envUserProfile = None
  /\ envHome \in {None, Some(HomeDir)}
  /\ files \in {[p \in LockPaths |-> IF p = LockPathOf(HomeDir) THEN f ELSE Absent] :
                  f \in {Absent, TextFile(<<Doc(LockDoc(4242, PublishedIpc))>>)}}
  /\ resolved = [st |-> "idle"]
  /\ call = [st |-> "idle"]
  /\ daemon \in {[up |-> u, spawns |-> 0] : u \in BOOLEAN}
  /\ InitThreadsOff
  /\ chans = NoChannels
  /\ util = StartBegin

NextStart ==
  \/ StartProbe
  \/ StartFind
  \/ StartSpawn
  \/ DaemonStarts
  \/ DaemonExits

SpecStart == InitStart /\ [][NextStart]_vars

(***************************************************************************)
(* Concurrent requests: the synchronizer's tick, the supervisor's probe    *)
(* and an on-demand command, each inside ipc_request, with the channels    *)
(* they open.                                                              *)
(***************************************************************************)
\* requests made in one run of the specification of the channels
MaxCalls == 3

Callers == {"auto", "sync", "cmd"}

\* the channel a caller is inside ipc_request with
OwnChannels(t) == {c \in chans.open : c.owner = t /\ ~c.returned}

\* OpenOptions::open / UnixStream::connect: a fresh channel of the caller's
\* own, or, with nothing listening, None at once
ChannelOpen(t) ==
  /\ pc[t] = "q_idle"
  /\ chans.opened < MaxCalls
  /\ IF daemon.up
     THEN /\ chans' = [chans EXCEPT
                         !.opened = @ + 1,
                         !.open = @ \cup {[id |-> chans.opened + 1, owner |-> t,
                                           returned |-> FALSE]}]
          /\ pc' = [pc EXCEPT ![t] = "q_inside"]
     ELSE /\ chans' = [chans EXCEPT
                         !.last = (t :> [id |-> 0, lines |-> 0, answered |-> FALSE]) @@ @]
          /\ pc' = pc
  /\ UNCHANGED <<platform, envUserProfile, envHome, files, call, resolved, ep, cmd, auto,
                 tick, tray, daemon, util>>

\* the rest of ipc_request on the caller's channel: the request line, the one
\* read_line, and the return, at which the stream is dropped; the windows
\* reader thread that was not joined keeps the pipe
ChannelReturn(t) ==
  /\ pc[t] = "q_inside"
  /\ \E fail \in FailPoints(platform) \ {"connect"} :
       \E script \in IF fail = "none" THEN AppScripts ELSE {NoLine("quiet")} :
         LET r == ipc_request(platform, fail, script)
             own == CHOOSE c \in OwnChannels(t) : TRUE
         IN IF r.hang
            THEN /\ pc' = [pc EXCEPT ![t] = "q_hung"]
                 /\ chans' = chans
            ELSE /\ pc' = [pc EXCEPT ![t] = "q_idle"]
                 /\ chans' = [chans EXCEPT
                                !.open = IF r.worker = "detached"
                                         THEN (@ \ {own}) \cup {[own EXCEPT !.returned = TRUE]}
                                         ELSE @ \ {own},
                                !.last = (t :> [id |-> own.id,
                                                lines |-> IF r.sent THEN 1 ELSE 0,
                                                answered |-> r.ret.some]) @@ @]
  /\ UNCHANGED <<platform, envUserProfile, envHome, files, call, resolved, ep, cmd, auto,
                 tick, tray, daemon, util>>

InitChannels ==
  /\ InitEnvApp
  /\ pc = [t \in Threads |-> IF t \in Callers THEN "q_idle" ELSE "m_done"]
  /\ ep = [t \in Threads |-> None]
  /\ cmd = NoCommand
  /\ auto = AutoStart
  /\ tick = NoTick
  /\ tray = InitialTray

NextChannels ==
  \/ \E t \in Callers : ChannelOpen(t)
  \/ \E t \in Callers : ChannelReturn(t)
  \/ DaemonStarts
  \/ DaemonExits

SpecChannels == InitChannels /\ [][NextChannels]_vars

(***************************************************************************)
(* Claims about the sanitization (SpecSanitize).                           *)
(***************************************************************************)
Sanitized == util.op = "sanitize" /\ util.st = "done"

\* a key with a sensitive fragment, anywhere in v, is mapped to a non-empty
\* string that is not the mask
RECURSIVE Leaks(_)
Leaks(v) ==
  IF v.t = "obj"
  THEN \E k \in DOMAIN v.o :
         \/ IsSensitive(k) /\ v.o[k].t = "str" /\ v.o[k].s \notin {"", "***"}
         \/ Leaks(v.o[k])
  ELSE IF v.t = "arr" THEN \E i \in DOMAIN v.a : Leaks(v.a[i])
  ELSE FALSE

\* the same, looking only at keys that are not inside the value of a
\* sensitive key
RECURSIVE LeaksOutsideSensitive(_)
LeaksOutsideSensitive(v) ==
  IF v.t = "obj"
  THEN \E k \in DOMAIN v.o :
         IF IsSensitive(k) THEN v.o[k].t = "str" /\ v.o[k].s \notin {"", "***"}
         ELSE LeaksOutsideSensitive(v.o[k])
  ELSE IF v.t = "arr" THEN \E i \in DOMAIN v.a : LeaksOutsideSensitive(v.a[i])
  ELSE FALSE

\* The part of C11 that holds: after sanitize_value no sensitive key that is
\* reached through non-sensitive keys and arrays only is mapped to a non-empty
\* string other than the mask.
SanitizeMasksReachedKeys == Sanitized => ~LeaksOutsideSensitive(util.out)

\* C11: after sanitize_value no key with a sensitive fragment, at any depth
\* and whatever the keys of the enclosing objects are, is mapped to a
\* non-empty string other than the mask token.
C11_Claim == Sanitized => ~Leaks(util.out)

(***************************************************************************)
(* Claims about the diagnostic bundle export (SpecExport).                 *)
(***************************************************************************)
Exported == util.op = "export" /\ util.st = "e_done" /\ util.result.val.ok

ExportFailed == util.op = "export" /\ util.st = "e_done" /\ ~util.result.val.ok

\* C12: in collect_logs an I/O failure in any step (creating the archive,
\* reading a log file or the config document, starting or writing an entry,
\* finalizing) aborts the operation: once a step has failed the operation is
\* over with an error, and it never returns success after a failed step.
C12_Claim ==
  /\ util.op = "export" /\ util.failed # {} => ExportFailed
  /\ Exported => util.failed = {}

\* The part of C12 that holds: a failure to create the archive, to start or
\* write an entry, or to finalize ends the operation with an error.
ExportAbortsOnArchiveFailure ==
  util.op = "export" /\ (\E f \in util.failed : ~contains(f, "read ")) => ExportFailed

EntryNames == {util.entries[j].name : j \in DOMAIN util.entries}

EntriesNamed(name) == {j \in DOMAIN util.entries : util.entries[j].name = name}

\* C13: a successfully completed archive holds each of the three log files
\* exactly when it was present in the data directory, its bytes verbatim;
\* config-sanitized.json exactly when config.json was present;
\* system-info.txt exactly once and last; nothing else, and no config.json.
C13_Claim ==
  Exported =>
    /\ \A i \in DOMAIN LogNames :
         LET path == DataPath(get_home_dir.val, LogNames[i]) IN
           /\ LogNames[i] \in EntryNames <=> exists(path)
           /\ \A j \in EntriesNamed(LogNames[i]) : util.entries[j].bytes = files[path].text
    /\ "config-sanitized.json" \in EntryNames
         <=> exists(DataPath(get_home_dir.val, "config.json"))
    /\ Cardinality(EntriesNamed("system-info.txt")) = 1
    /\ util.entries[Len(util.entries)].name = "system-info.txt"
    /\ EntryNames \subseteq {LogNames[i] : i \in DOMAIN LogNames}
                              \cup {"config-sanitized.json", "system-info.txt"}

\* The layout that holds, with "present and readable" for "present": each
\* entry at most once, in the order of the code, the config entry holding the
\* sanitized text.
ExportLayoutOfReadable ==
  Exported =>
    /\ \A i \in DOMAIN LogNames :
         LET path == DataPath(get_home_dir.val, LogNames[i]) IN
           /\ LogNames[i] \in EntryNames <=> fs_read(path).some
           /\ Cardinality(EntriesNamed(LogNames[i])) <= 1
           /\ \A j \in EntriesNamed(LogNames[i]) : util.entries[j].bytes = files[path].text
    /\ LET path == DataPath(get_home_dir.val, "config.json") IN
         /\ "config-sanitized.json" \in EntryNames <=> read_to_string(path).some
         /\ Cardinality(EntriesNamed("config-sanitized.json")) <= 1
         /\ \A j \in EntriesNamed("config-sanitized.json") :
              util.entries[j].bytes = sanitize_config(files[path].text)
    /\ Cardinality(EntriesNamed("system-info.txt")) = 1
    /\ util.entries[Len(util.entries)].name = "system-info.txt"
    /\ EntryNames \subseteq {LogNames[i] : i \in DOMAIN LogNames}
                              \cup {"config-sanitized.json", "system-info.txt"}

(***************************************************************************)
(* Claims about the update check (SpecUpdate).                             *)
(***************************************************************************)
UpdateAnswered(statuses) ==
  /\ util.op = "update" /\ util.st = "u_done"
  /\ util.net.val.k = "resp"
  /\ util.net.val.status \in statuses

\* C14: a 304 response yields a result with not_modified = true and
\* has_update = false whose etag is the one the caller supplied (the empty
\* string when none was supplied); any other non-success status yields an
\* error and no result; the If-None-Match header is on the request exactly
\* when a cached etag is supplied and not empty, and carries that etag.
C14_Theorem ==
  /\ UpdateAnswered({304}) =>
       /\ util.result.val.ok
       /\ util.result.val.val.not_modified
       /\ ~util.result.val.val.has_update
       /\ util.result.val.val.etag =
            (IF util.cached_etag.some THEN util.cached_etag.val ELSE "")
  /\ UpdateAnswered({st \in Statuses : ~is_success(st)} \ {304}) => ~util.result.val.ok
  /\ util.op = "update" /\ util.st = "u_done" /\ util.req.some =>
       /\ util.req.val.if_none_match.some
            <=> (util.cached_etag.some /\ util.cached_etag.val # "")
       /\ util.req.val.if_none_match.some =>
            util.req.val.if_none_match.val = util.cached_etag.val

\* a conditional request with the cached etag was answered 304 and the result
\* echoes that etag
C14_Witness ==
  /\ UpdateAnswered({304})
  /\ util.cached_etag = Some("W/old")
  /\ util.req.val.if_none_match = Some("W/old")
  /\ util.result.val.ok
  /\ util.result.val.val.etag = "W/old"

\* the triple the claim gives a version string: the i-th dot-separated
\* component as a number, 0 when it is missing or no number
ComponentOr0(parts, i) ==
  IF i <= Len(parts) /\ parse_u64(parts[i]).some THEN parse_u64(parts[i]).val ELSE 0

PositionalTriple(ver) ==
  LET parts == split(ver, ".") IN
    <<ComponentOr0(parts, 1), ComponentOr0(parts, 2), ComponentOr0(parts, 3)>>

\* a leading 'v' stripped, and the suffix from the first '-'
NormalizedTag(tag) ==
  Head(split(IF Len(tag) > 0 /\ CharAt(tag, 1) = "v" THEN SubSeq(tag, 2, Len(tag)) ELSE tag,
             "-"))

ReleaseReported ==
  /\ UpdateAnswered({st \in Statuses : is_success(st)})
  /\ util.result.val.ok
  /\ JGet(util.net.val.body.val, "tag_name").some

TagReported == JGet(util.net.val.body.val, "tag_name").val.s

\* C15: has_update is true exactly when the positional (major, minor, patch)
\* triple of the normalized tag is strictly greater than that of the current
\* version, and latest_version is the original tag.
C15_Claim ==
  ReleaseReported =>
    /\ util.result.val.val.has_update
         <=> TripleGt(PositionalTriple(NormalizedTag(TagReported)),
                      PositionalTriple(util.current))
    /\ util.result.val.val.latest_version = TagReported

\* every dot-separated component of the normalized tag is a number
WellFormedTag(tag) ==
  LET parts == split(NormalizedTag(tag), ".") IN
    \A i \in DOMAIN parts : parse_u64(parts[i]).some

\* The part of C15 that holds: for tags whose components are all numbers.
VersionCompareWellFormed ==
  ReleaseReported /\ WellFormedTag(TagReported) =>
    /\ util.result.val.val.has_update
         <=> TripleGt(PositionalTriple(NormalizedTag(TagReported)),
                      PositionalTriple(util.current))
    /\ util.result.val.val.latest_version = TagReported

(***************************************************************************)
(* Claims about the explicit start (SpecStart).                            *)
(***************************************************************************)
StartReturned == util.op = "start" /\ util.st = "d_done"

\* C16: start_daemon returns a value in every case: ok = true with
\* already_running = true, and nothing spawned, when the probe is answered;
\* ok = false with the error string when the executable is not found or the
\* spawn fails; otherwise ok = true after one spawn.  It never spawns twice.
C16_Theorem ==
  /\ util.op = "start" => daemon.spawns <= 1
  /\ StartReturned =>
       IF util.probe = "yes"
       THEN /\ util.result = JObj(("ok" :> JBool(TRUE)) @@ ("already_running" :> JBool(TRUE)))
            /\ daemon.spawns = 0
       ELSE IF ~util.found.val.ok
       THEN /\ util.result = JObj(("ok" :> JBool(FALSE))
                                  @@ ("error" :> JStr(util.found.val.err)))
            /\ daemon.spawns = 0
       ELSE IF util.spawn = "err"
       THEN /\ JGet(util.result, "ok") = Some(JBool(FALSE))
            /\ JGet(util.result, "error").some
            /\ JGet(util.result, "error").val.t = "str"
            /\ daemon.spawns = 0
       ELSE /\ util.result = JObj("ok" :> JBool(TRUE))
            /\ daemon.spawns = 1

\* the probe went unanswered, the executable was found in the resource
\* directory, and the one spawn succeeded
C16_Witness ==
  /\ StartReturned
  /\ util.probe = "no"
  /\ util.found.val = Ok("resource_dir/" \o DaemonName)
  /\ util.result = JObj("ok" :> JBool(TRUE))
  /\ daemon.spawns = 1

(***************************************************************************)
(* Claims about the endpoint of the commands (SpecCodec).                  *)
(***************************************************************************)
NoHome == ~envUserProfile.some /\ ~envHome.some

Resolved == pc["cmd"] \in {"c_request", "c_done", "c_hung"}

\* the not-running / failure result of each command
FailureResult ==
  CASE cmd.verb \in MutatingVerbs ->
         cmd.result = JObj(("ok" :> JBool(FALSE)) @@ ("error" :> JStr("daemon not running")))
    [] cmd.verb = "list_bots" ->
         cmd.result = JObj(("interactive" :> JArr(<<>>)) @@ ("push" :> JArr(<<>>)))
    [] cmd.verb \in PayloadVerbs \ {"list_bots"} -> cmd.result = JNull
    [] cmd.verb = "read_daemon_status" -> cmd.result = NotRunningStatus
    [] cmd.verb = "stop" -> cmd.result = JBool(FALSE)

\* C17 as amended: with neither environment variable set, resolution fails on
\* the unix build, and every command then returns its not-running / failure
\* result without opening a channel; on the windows build resolution returns
\* the fixed pipe name, which needs no home directory, and the command goes on
\* to its request.
C17_Theorem ==
  NoHome /\ Resolved =>
    IF platform = "unix"
    THEN /\ ep["cmd"] = None
         /\ pc["cmd"] = "c_done"
         /\ cmd.calls = 0 /\ cmd.sent = 0
         /\ FailureResult
    ELSE ep["cmd"] = Some("\\\\.\\pipe\\felay")

\* on unix, without a home directory, save_bot has returned its failure
\* result and made no request
C17_Witness ==
  /\ NoHome /\ platform = "unix"
  /\ pc["cmd"] = "c_done"
  /\ cmd.verb = "save_bot"
  /\ cmd.calls = 0
  /\ JGet(cmd.result, "ok") = Some(JBool(FALSE))

\* C17 as stated: without a home directory resolution fails on every platform
\* and every command returns its failure result without opening a channel.
C17_Original ==
  NoHome /\ Resolved =>
    /\ ep["cmd"] = None
    /\ pc["cmd"] = "c_done"
    /\ cmd.calls = 0 /\ cmd.sent = 0
    /\ FailureResult

(***************************************************************************)
(* Claims about the reader thread of the windows Transport                 *)
(* (SpecTransport).                                                        *)
(***************************************************************************)
\* ipc_request gave up waiting for the line
TimedOut ==
  /\ call.st = "returned"
  /\ call.fail = "none"
  /\ ~call.res.ret.some
  /\ call.res.el = ReadTimeout

\* C18: on the pipe platform, after ipc_request has returned Unreachable on
\* the timeout, no thread of that call is still in the read and the pipe is
\* closed: the reader thread, which owns the pipe, has ended.
C18_Claim ==
  platform = "windows" /\ TimedOut => call.res.worker \in {"joined", "exited"}

(***************************************************************************)
(* Claims about the Supervisor state machine (SpecApp).                    *)
(***************************************************************************)
\* C19: one run of auto_start_daemon probes first; if that probe succeeds the
\* run is over (Running) with no executable lookup, no spawn and no poll; it
\* spawns at most once, and only after the initial probe failed and an
\* executable was located; it polls only after a successful spawn.
C19_Theorem ==
  /\ daemon.spawns <= 1
  /\ auto.probe = "none" =>
       pc["auto"] \in {"off", "a_probe"} /\ auto.found = "none"
         /\ daemon.spawns = 0 /\ auto.polls = 0
  /\ auto.probe = "yes" =>
       pc["auto"] = "a_done" /\ auto.outcome = "already_running" /\ auto.found = "none"
         /\ daemon.spawns = 0 /\ auto.polls = 0
  /\ auto.probe = "hang" => auto.found = "none" /\ daemon.spawns = 0 /\ auto.polls = 0
  /\ auto.found # "none" => auto.probe = "no"
  /\ pc["auto"] = "a_spawn" => auto.found = "yes" /\ daemon.spawns = 0
  /\ daemon.spawns = 1 => auto.probe = "no" /\ auto.found = "yes"
  /\ auto.polls > 0 \/ pc["auto"] = "a_sleep" => daemon.spawns = 1

\* a run whose probe failed, that found the executable, spawned it once and
\* saw it running at its third poll
C19_Witness ==
  /\ pc["auto"] = "a_done"
  /\ auto.outcome = "running"
  /\ auto.probe = "no"
  /\ daemon.spawns = 1
  /\ auto.polls = 3

(***************************************************************************)
(* Claims about the channels of concurrent requests (SpecChannels).        *)
(***************************************************************************)
\* The part of C20 that holds: every caller inside ipc_request has exactly
\* one channel, its own and opened for this call; no channel has two owners;
\* a call that returned wrote at most one request line on the channel it
\* opened, and none is made twice.
ChannelsOwnAndFresh ==
  /\ \A t \in Callers : pc[t] \in {"q_inside", "q_hung"} <=> Cardinality(OwnChannels(t)) = 1
  /\ \A c1, c2 \in chans.open : c1.id = c2.id => c1 = c2
  /\ \A c \in chans.open : c.id <= chans.opened
  /\ \A t \in DOMAIN chans.last :
       /\ chans.last[t].lines <= 1
       /\ chans.last[t].answered => chans.last[t].lines = 1 /\ chans.last[t].id > 0
       /\ \A c \in chans.open : c.id = chans.last[t].id => c.owner = t

\* C20: every request, also when several run concurrently, has its own fresh
\* channel, writes one request line on it, reads at most one response line,
\* is never retried, shares its channel with no other request, and its
\* channel is closed when the call returns.
C20_Claim ==
  /\ ChannelsOwnAndFresh
  /\ \A c \in chans.open : ~c.returned

(***************************************************************************)
(* Endpoint resolution per request: the daemon rewrites or removes its     *)
(* lock file while commands, ticks of the status polling thread and the    *)
(* probes of auto_start_daemon are made.                                   *)
(***************************************************************************)
\* the endpoint a restarted daemon publishes
MovedIpc == "/tmp/y.sock"

\* what the lock file under the home directory holds over time
EndpointFiles ==
  {Absent, TextFile(<<Doc(LockDoc(4242, PublishedIpc))>>),
   TextFile(<<Doc(LockDoc(4243, MovedIpc))>>), TextFile(<<Junk>>)}

\* the daemon writes its lock file, a restarted one rewrites it, an exiting
\* one removes it
LockFileRewritten ==
  /\ \E f \in EndpointFiles :
       /\ files[LockPathOf(HomeDir)] # f
       /\ files' = [files EXCEPT ![LockPathOf(HomeDir)] = f]
  /\ UNCHANGED <<platform, envUserProfile, envHome, resolved, othersOfLocator>>

\* the threads as the setup closure leaves them, a home directory, no lock
\* file yet, and nothing listening at any endpoint: every request fails at
\* its connect, after the endpoint was resolved
InitEndpoint ==
  /\ platform \in {"unix", "windows"}
  /\ envUserProfile = None
  /\ envHome = Some(HomeDir)
  /\ files = [p \in LockPaths |-> Absent]
  /\ resolved = [st |-> "idle"]
  /\ call = [st |-> "idle"]
  /\ daemon = [up |-> FALSE, spawns |-> 0]
  /\ chans = NoChannels
  /\ util = NoUtil
  /\ pc = [t \in Threads |-> CASE t = "main" -> "m_done" [] t = "auto" -> "a_probe"
                                [] t = "sync" -> "s_sleep" [] t = "cmd" -> "c_idle"]
  /\ ep = [t \in Threads |-> None]
  /\ cmd = NoCommand
  /\ auto = AutoStart
  /\ tick = NoTick
  /\ tray = InitialTray

NextEndpoint ==
  \/ LockFileRewritten
  \/ CmdInvoke("get_config")
  \/ CmdResolve
  \/ CmdRequest
  \/ CmdReturn
  \/ SyncWake
  \/ SyncRequest
  \/ SyncSetStatus
  \/ SyncSetSessions
  \/ AutoProbe
  \/ AutoFind
  \/ AutoSpawn
  \/ AutoPoll

SpecEndpoint == InitEndpoint /\ [][NextEndpoint]_vars

(***************************************************************************)
(* Claims about the endpoint of each request (SpecEndpoint).               *)
(***************************************************************************)
\* the step is a resolution by thread t: a command reaching its request or
\* returning for want of an endpoint, a wake-up of the status polling thread,
\* a probe of auto_start_daemon
ResolutionBy(t) ==
  CASE t = "cmd" -> pc["cmd"] = "c_resolve" /\ pc'["cmd"] # "c_resolve"
    [] t = "sync" -> pc["sync"] = "s_sleep" /\ pc'["sync"] # "s_sleep"
    [] t = "auto" -> auto'.probe # auto.probe \/ auto'.polls # auto.polls

\* C21: the endpoint is never cached across calls: every request (each
\* on-demand command, each tick of the status polling thread, the probe of
\* auto_start_daemon and each poll of its starting phase) resolves the
\* endpoint again from the lock file as it is at that request, so a request
\* made after the lock file appeared or changed uses the new endpoint; a
\* command that has returned keeps no endpoint.
C21_Theorem ==
  [][/\ \A t \in {"cmd", "sync", "auto"} : ResolutionBy(t) => ep'[t] = get_ipc_path
     /\ \A t \in {"cmd", "sync", "auto"} : ep'[t] # ep[t] => ResolutionBy(t) \/ ep'[t] = None
     /\ pc'["cmd"] = "c_idle" => ep'["cmd"] = None]_vars

\* C21 witness: three requests were made around two changes of the lock
\* file, each with the endpoint of the lock file of its time: the probe of
\* auto_start_daemon with the unix default, a tick with the first published
\* endpoint, and a command, now at its request, with the endpoint of the
\* rewritten lock file
C21_Witness ==
  /\ platform = "unix"
  /\ ep["auto"] = Some("/home/u/.felay/daemon.sock")
  /\ ep["sync"] = Some(PublishedIpc)
  /\ tick.done
  /\ pc["cmd"] = "c_request"
  /\ ep["cmd"] = Some(MovedIpc)

(***************************************************************************)
(* The starting phase of auto_start_daemon with the time it takes: the     *)
(* loop after a successful spawn, in milliseconds.                         *)
(***************************************************************************)
\* thread::sleep(Duration::from_millis(300))
SleepMs == 300

\* auto_start_daemon when spawn_daemon has returned Ok: no poll made yet, no
\* time passed since the spawn
Starting ==
  [polls |-> 0, outcome |-> "none", probe |-> "no", found |-> "yes", elapsed |-> 0]

\* one turn of the loop, as AutoPoll, with the time of the sleep and of the
\* call of is_daemon_running: none when the endpoint does not resolve, else
\* that of ipc_request
StartingPoll ==
  /\ pc["auto"] = "a_sleep"
  /\ \E o \in Outcomes :
       LET ipc_path == get_ipc_path
           r == IF ipc_path.some THEN ipc_request(platform, o.fail, o.script)
                ELSE EarlyNone("connect")
           running == is_daemon_running(ipc_path, r.ret)
           last == auto.polls + 1 = PollBudget
       IN /\ pc' = [pc EXCEPT !["auto"] = IF r.hang THEN "a_hung"
                                          ELSE IF running \/ last THEN "a_done"
                                          ELSE "a_sleep"]
          /\ auto' = [auto EXCEPT
                        !.polls = @ + 1,
                        !.elapsed = @ + SleepMs + (IF r.hang THEN 0 ELSE r.el * 1000),
                        !.outcome = IF r.hang THEN @
                                    ELSE IF running THEN "running"
                                    ELSE IF last THEN "give_up"
                                    ELSE @]
          /\ ep' = [ep EXCEPT !["auto"] = ipc_path]
  /\ UNCHANGED <<env, util, cmd, tick, tray, daemon>>

InitStarting ==
  /\ platform \in {"unix", "windows"}
  /\ envUserProfile = None
  /\ envHome \in {None, Some(HomeDir)}
  /\ files \in {[p \in LockPaths |-> IF p = LockPathOf(HomeDir) THEN f ELSE Absent] :
                  f \in {Absent, TextFile(<<Doc(LockDoc(4242, PublishedIpc))>>)}}
  /\ resolved = [st |-> "idle"]
  /\ call = [st |-> "idle"]
  /\ daemon \in {[up |-> u, spawns |-> 1] : u \in BOOLEAN}
  /\ chans = NoChannels
  /\ util = NoUtil
  /\ pc = [t \in Threads |-> IF t = "auto" THEN "a_sleep" ELSE "off"]
  /\ ep = [t \in Threads |-> None]
  /\ cmd = NoCommand
  /\ auto = Starting
  /\ tick = NoTick
  /\ tray = NoTray

NextStarting ==
  \/ StartingPoll
  \/ DaemonStarts
  \/ DaemonExits

SpecStarting == InitStarting /\ [][NextStarting]_vars

(***************************************************************************)
(* Claims about the starting phase (SpecStarting).                         *)
(***************************************************************************)
\* What holds of the duration: the sleeps alone take at most 20 x 300 ms, and
\* on the windows build every call of is_daemon_running adds at most the
\* read timeout, so the phase ends within 20 x (300 ms + 10 s).
StartingWithinSleepsAndReads ==
  /\ auto.polls <= PollBudget
  /\ platform = "windows" =>
       /\ pc["auto"] # "a_hung"
       /\ auto.elapsed <= auto.polls * (SleepMs + ReadTimeout * 1000)

\* C22: the starting phase of auto-start lasts about 6 seconds in all (20
\* polls, 300 ms apart): from the spawn to Running or GiveUp no more than
\* roughly 6 seconds pass (here: 20 x 300 ms and one second more), whatever
\* the daemon does at each poll, accepting the connection and not answering
\* included; the phase is never stuck in a poll.
C22_Claim ==
  /\ auto.elapsed <= PollBudget * SleepMs + 1000
  /\ pc["auto"] # "a_hung"

(***************************************************************************)
(* The frame of the sanitization (SpecSanitize).                           *)
(***************************************************************************)
\* after differs from before at most in non-empty strings that are the value
\* of a sensitive key and have become the mask: same keys, same nesting, same
\* array lengths, every other scalar identical
RECURSIVE OnlyMasks(_, _, _)
OnlyMasks(before, after, underSensitive) ==
  IF before.t = "obj"
  THEN /\ after.t = "obj"
       /\ DOMAIN after.o = DOMAIN before.o
       /\ \A k \in DOMAIN before.o : OnlyMasks(before.o[k], after.o[k], IsSensitive(k))
  ELSE IF before.t = "arr"
  THEN /\ after.t = "arr"
       /\ Len(after.a) = Len(before.a)
       /\ \A i \in DOMAIN before.a : OnlyMasks(before.a[i], after.a[i], FALSE)
  ELSE \/ after = before
       \/ underSensitive /\ before.t = "str" /\ before.s # "" /\ after = MaskToken

\* C23: the sanitization changes nothing but string values under sensitive
\* keys: the keys, the nesting and the array lengths are those of the input;
\* every scalar under a key with no sensitive fragment (cwd), every empty
\* string and every scalar that is no string is the same before and after;
\* sanitizing the output again gives the output.
C23_Theorem ==
  util.op = "sanitize" /\ util.st = "done" =>
    /\ OnlyMasks(util.doc, util.out, FALSE)
    /\ sanitize_value(util.out) = util.out

\* C23 witness: a document with a secret and a number nested under cwd: the
\* secret is masked, the number and the keys are as they were
C23_Witness ==
  /\ util.op = "sanitize" /\ util.st = "done"
  /\ util.doc = JObj("cwd" :> JObj(("webhookUrl" :> JStr("tok")) @@ ("cwd" :> JNum(7))))
  /\ util.out = JObj("cwd" :> JObj(("webhookUrl" :> MaskToken) @@ ("cwd" :> JNum(7))))

(***************************************************************************)
(* auto_start_daemon and start_daemon commands in one process: the thread  *)
(* the setup closure spawned runs while the front-end invokes the command, *)
(* once or again.                                                          *)
(***************************************************************************)
\* daemon processes spawned in one run of the specification of the launches
MaxSpawns == 2

\* the front-end invokes start_daemon: the first time, or again when the
\* call before has returned
StartInvoke ==
  /\ util.op = "none" \/ (util.op = "start" /\ util.st = "d_done")
  /\ daemon.spawns < MaxSpawns
  /\ util' = StartBegin
  /\ UNCHANGED <<env, pc, ep, cmd, auto, tick, tray, daemon>>

\* the setup closure has spawned auto_start_daemon; nothing listens yet
InitLaunch ==
  /\ platform \in {"unix", "windows"}
  /\ envUserProfile = None
  /\ envHome \in {None, Some(HomeDir)}
  /\ files \in {[p \in LockPaths |-> IF p = LockPathOf(HomeDir) THEN f ELSE Absent] :
                  f \in {Absent, TextFile(<<Doc(LockDoc(4242, PublishedIpc))>>)}}
  /\ resolved = [st |-> "idle"]
  /\ call = [st |-> "idle"]
  /\ daemon = [up |-> FALSE, spawns |-> 0]
  /\ chans = NoChannels
  /\ util = NoUtil
  /\ pc = [t \in Threads |-> CASE t = "main" -> "m_done" [] t = "auto" -> "a_probe"
                                [] OTHER -> "off"]
  /\ ep = [t \in Threads |-> None]
  /\ cmd = NoCommand
  /\ auto = AutoStart
  /\ tick = NoTick
  /\ tray = InitialTray

\* a spawned daemon comes to listen at some time, or never
NextLaunch ==
  \/ AutoProbe
  \/ AutoFind
  \/ AutoSpawn
  \/ AutoPoll
  \/ StartInvoke
  \/ StartProbe
  \/ StartFind
  \/ StartSpawn
  \/ DaemonStarts

SpecLaunch == InitLaunch /\ [][NextLaunch]_vars

(***************************************************************************)
(* Claims about concurrent launches (SpecLaunch).                          *)
(***************************************************************************)
\* What holds: a spawn is made only by a run whose own probe said the daemon
\* was not running; nothing else is consulted before spawn_daemon.
SpawnsAfterOwnProbe ==
  /\ auto.polls > 0 \/ pc["auto"] \in {"a_spawn", "a_sleep"} => auto.probe = "no"
  /\ util.op = "start" /\ util.st = "d_spawn" => util.probe = "no"
  /\ util.op = "start" /\ util.spawn # "none" => util.probe = "no"

\* C24: over auto_start_daemon and the start_daemon commands of one process,
\* the daemon is spawned at most once while no daemon is reachable yet: a
\* start_daemon made while auto-start is in its starting phase, or a second
\* start_daemon made before the first daemon answers, spawns no second
\* process.  (No daemon has listened yet in any state where daemon.up is
\* false: under SpecLaunch a daemon that listens keeps listening.)
C24_Claim ==
  ~daemon.up => daemon.spawns <= 1

(***************************************************************************)
(* The tray's texts with every thread of the process running: the setup    *)
(* closure has returned, auto_start_daemon and the status polling thread   *)
(* run, and the user picks the stop item or the front-end invokes a        *)
(* command.  The code of the tray is the same on both builds; the windows  *)
(* build is taken, where every request returns.                            *)
(***************************************************************************)
InitTray ==
  /\ platform = "windows"
  /\ envUserProfile = None
  /\ envHome = Some(HomeDir)
  /\ files = [p \in LockPaths |-> Absent]
  /\ resolved = [st |-> "idle"]
  /\ call = [st |-> "idle"]
  /\ daemon \in {[up |-> u, spawns |-> 0] : u \in BOOLEAN}
  /\ chans = NoChannels
  /\ util = NoUtil
  /\ pc = [t \in Threads |-> CASE t = "main" -> "m_done" [] t = "auto" -> "a_probe"
                                [] t = "sync" -> "s_sleep" [] t = "cmd" -> "c_idle"]
  /\ ep = [t \in Threads |-> None]
  /\ cmd = NoCommand
  /\ auto = AutoStart
  /\ tick = NoTick
  /\ tray = InitialTray

NextTray ==
  \/ \E verb \in {"stop", "get_config"} : CmdInvoke(verb)
  \/ CmdResolve
  \/ CmdRequest
  \/ CmdReturn
  \/ SyncWake
  \/ SyncRequest
  \/ SyncSetStatus
  \/ SyncSetSessions
  \/ AutoProbe
  \/ AutoFind
  \/ AutoSpawn
  \/ AutoPoll
  \/ DaemonStarts
  \/ DaemonExits

SpecTray == InitTray /\ [][NextTray]_vars

(***************************************************************************)
(* Claims about the tray's texts (SpecTray).                               *)
(***************************************************************************)
\* the step is one of the two set_text calls of the status polling thread
SetTextStep ==
  pc["sync"] \in {"s_set_status", "s_set_sessions"} /\ pc'["sync"] # pc["sync"]

\* the status polling thread is in its first sleep
BeforeFirstTick == pc["sync"] = "s_sleep" /\ ep["sync"] = None

\* C25: the status text and the session-count text of the tray are written
\* by the status polling thread only: the stop item, auto_start_daemon and
\* every command leave both as they are, so after a successful stop the tray
\* keeps its text until the next tick; before the first tick, which comes
\* after the first sleep, the texts are the initial ones.
C25_Theorem ==
  /\ [][tray' # tray => SetTextStep]_vars
  /\ [](BeforeFirstTick => tray = InitialTray)

\* C25 witness: a tick has set "running", auto_start_daemon has run, the stop
\* item has returned true and the daemon has exited; the status polling
\* thread sleeps and the tray still says running
C25_Witness ==
  /\ pc["cmd"] = "c_done" /\ cmd.verb = "stop" /\ cmd.result = JBool(TRUE)
  /\ ~daemon.up
  /\ auto.probe # "none"
  /\ pc["sync"] = "s_sleep" /\ tick.done
  /\ tray.status = "Daemon: running"

(***************************************************************************)
(* Claims about the config entry of the archive (SpecExport).              *)
(***************************************************************************)
\* the text of config.json as collect_logs read it
ConfigRaw == files[DataPath(get_home_dir.val, "config.json")].text

\* What holds: a config.json that is a JSON document is written as the
\* sanitized document and never as it was read.
ConfigEntrySanitizedWhenJson ==
  \A j \in EntriesNamed("config-sanitized.json") :
    FromStr(ConfigRaw).some =>
      util.entries[j].bytes = <<Doc(sanitize_value(FromStr(ConfigRaw).val))>>

\* C26: the export writes no config content that has not gone through the
\* sanitization: whatever config.json holds, text that is no valid JSON
\* included, the entry config-sanitized.json is sanitize_value of the parsed
\* document, and the text of config.json as read is never written.
C26_Claim ==
  \A j \in EntriesNamed("config-sanitized.json") :
    /\ FromStr(ConfigRaw).some
    /\ util.entries[j].bytes = <<Doc(sanitize_value(FromStr(ConfigRaw).val))>>
    /\ util.entries[j].bytes # ConfigRaw

====
